---------------------------- MODULE Spec2Model ----------------------------
(***************************************************************************)
(* A model of the pachyderm worker driver (package driver), and of the    *)
(* PUT object handler of the S3 gateway (package s3):                     *)
(*   - the coordination store operations UpdateJobState and DeleteJob,    *)
(*     run as optimistic transactions (NewSTM);                           *)
(*   - WithData: staging, linking, callback and the deferred cleanups;    *)
(*   - RunUserCode and RunUserErrorHandlingCode;                          *)
(*   - UploadOutput: the walk of the output directory and the tagged      *)
(*     hashtree object.                                                   *)
(* Each part has its own specification over the shared variables; the     *)
(* variables of the other parts keep their initial values.                *)
(***************************************************************************)
EXTENDS Integers, Sequences, FiniteSets, TLC

VARIABLES
    jobs,        \* etcd jobs collection: job id -> EtcdJobInfo (or absent)
    pipelines,   \* etcd pipelines collection: pipeline name -> EtcdPipelineInfo
    rev,         \* etcd mod revision of every key
    call,        \* the driver calls in flight, one STM loop each
    commits,     \* history: the calls in the order their transactions committed
    mjobs,       \* the jobs collection of the store the MockDriver works on
    mpipelines,  \* the pipelines collection of the store the MockDriver works on
    mconf,       \* userOptions.NumWorkers handed to NewMockDriver
    mopts,       \* md.options.NumWorkers
    mcall,       \* the last call on the MockDriver and what it returned
    mseq,        \* history: the store operations run through both drivers
    kv,          \* the chunk, merge, plan and shard entries in etcd, by key
    kop,         \* the last operation on those entries
    idir,        \* unlinkData: the entries of inputDir, the scratch directories below its marker
    ucall,       \* unlinkData: the last call, what it found and what it returned
    branchFile,  \* S3 handler: the content of the file on the branch (absent: NoFile)
    s3call,      \* S3 handler: the last PUT object request and its response
    data,        \* WithData: the datum's inputs, data[i] is "pfs" or "git"
    spout,       \* pipelineInfo.Spout != nil
    wpc,         \* WithData: position in the function
    scratch,     \* the scratch directory of this invocation exists on disk
    dir,         \* WithData: the path downloadData returned ("" on error)
    derr,        \* WithData: the error downloadData returned
    staging,     \* history: the run of every input downloadData went through
    wstats,      \* WithData: the post-callback drain, the credit to stats.DownloadBytes, retStats
    staged,      \* number of inputs pulled or cloned into the scratch directory
    inputDir,    \* entries of inputDir other than the scratch marker
    defers,      \* WithData: the deferred functions, in registration order
    retErr,      \* WithData: the named result retErr ("nil" when no error)
    wlog,        \* history: what WithData has done so far, in order
    mode,        \* "user": RunUserCode; "errcmd": RunUserErrorHandlingCode
    cmdEmpty,    \* the command array (Cmd, or ErrCmd) is empty
    rtimeout,    \* rawDatumTimeout: "nil", "valid" or "invalid"
    accept,      \* Transform.AcceptReturnCode
    rpc,         \* the invocation: created, started, terminated, returned
    ctxErr,      \* ctx.Err() of the context the command runs under
    elapsed,     \* the duration of rawDatumTimeout has passed since the call
    child,       \* the child process
    copyErr,     \* the error of the child's I/O copying, seen by WaitIO
    ioClosed,    \* WaitIO has closed the child's I/O
    result,      \* the value the invocation returned
    ctxFiredRunning,  \* history: ctx became done while the child was running
    elapsedRunning,   \* history: the timeout elapsed while the child was running
    invocations,      \* history: the number of invocations begun on this driver
    outRoot,     \* what os.Lstat reports for <inputDir>/out: "dir" or "symlink"
    outdir,      \* the entries of the output directory below its root, in walk order
    upc,         \* UploadOutput: position in the function
    walkPos,     \* UploadOutput: index of the next entry filepath.Walk visits
    stream,      \* the PutObjects stream: "none", "open", "closed" or "failed"
    sent,        \* number of file bytes sent on the PutObjects stream
    offset,      \* UploadOutput: the local offset into the block
    uploadBytes, \* stats.UploadBytes
    tree,        \* the datum hashtree: <<"nil">> or the nodes put so far, in order
    tagged,      \* the object tagged with the datum tag and its writer
    uret,     \* UploadOutput: the named result retErr
    uresult,     \* the values UploadOutput returned
    ulog,        \* history: the walk function's visits, in order
    userArg,     \* pipelineInfo.Transform.User, split at ":" into user and group
    passwd,      \* /etc/passwd: whether it exists, and its lines
    groupFile,   \* /etc/group: whether it exists, and its lines
    npc,         \* NewDriver: position in the function
    uid,         \* result.uid ("unset" for nil)
    gid,         \* result.gid ("unset" for nil)
    nerr,        \* the error NewDriver returned
    custom,      \* d.uid and d.gid are set (a custom user was resolved)
    owner,       \* the owner of every entry under inputDir: "worker" or "custom"
    probe,       \* what the enterprise GetState call at construction gave
    exportStats, \* d.exportStats
    metrics      \* number of updates of every Prometheus series

storeVars == <<jobs, pipelines, rev, call, commits>>

wdVars == <<data, spout, wpc, scratch, dir, derr, staging, wstats, staged, inputDir, defers, retErr, wlog>>

runVars == <<mode, cmdEmpty, rtimeout, accept, rpc, ctxErr, elapsed, child, copyErr, ioClosed, result, ctxFiredRunning, elapsedRunning, invocations>>

upVars == <<outRoot, outdir, upc, walkPos, stream, sent, offset, uploadBytes, tree, tagged, uret, uresult, ulog>>

idVars == <<custom, owner>>

ctorVars == <<userArg, passwd, groupFile, npc, uid, gid, nerr>>

mockVars == <<mjobs, mpipelines, mconf, mopts, mcall, mseq>>

kvVars == <<kv, kop>>

unlinkVars == <<idir, ucall>>

s3Vars == <<branchFile, s3call>>

statVars == <<probe, exportStats, metrics>>

vars == <<jobs, pipelines, rev, call, commits, data, spout, wpc, scratch, dir, derr, staging, wstats, staged, inputDir, defers, retErr, wlog,
          mode, cmdEmpty, rtimeout, accept, rpc, ctxErr, elapsed, child, copyErr, ioClosed, result, ctxFiredRunning, elapsedRunning, invocations,
          outRoot, outdir, upc, walkPos, stream, sent, offset, uploadBytes, tree, tagged, uret, uresult, ulog,
          userArg, passwd, groupFile, npc, uid, gid, nerr,
          mjobs, mpipelines, mconf, mopts, mcall, mseq, kv, kop, idir, ucall, branchFile, s3call,
          custom, owner, probe, exportStats, metrics>>

---------------------------------------------------------------------------
(* Bounds *)

\* Number of driver calls (UpdateJobState / DeleteJob) issued against the store.
NumCalls == 2

\* Number of inputs of the datum handed to WithData.
NumInputs == 2

\* Largest exit code of the child process (and largest accepted return code).
MaxExitCode == 2

\* Largest number of entries of the output directory below its root.
MaxEntries == 2

\* Largest length of an output file, in bytes.
MaxFileSize == 2

\* Length of the buffer UploadOutput reads a file through, in bytes.
BufLen == 1

\* The most lines /etc/passwd and /etc/group hold.
MaxLines == 2

\* Operations in a sequence run through the driver and the MockDriver.
MaxOps == 2

\* Largest NumWorkers a MockDriver is configured with.
MaxWorkers == 2

\* Chunk, merge, plan and shard entries in etcd at a time.
MaxKeys == 2

\* Invocations of RunUserCode and RunUserErrorHandlingCode on one driver.
MaxRuns == 2

\* The longest request body of a PUT object request, in bytes.
MaxBody == 2

\* Largest initial JobCounts value of a store whose counters are not in step
\* with its job entries.
MaxCount == 2

---------------------------------------------------------------------------
(* The coordination store *)

JobIDs == {"j1", "j2"}

PipelineNames == {"p1", "p2"}

\* pps.JobState, as the specification lists it.
JobStates == {"starting", "running", "merging", "success", "failure", "killed", "egressing"}

\* The states the modelled calls of UpdateJobState ask for, and those the job
\* entries start in.
TargetStates == {"running", "success", "killed"}

StartStates == {"starting", "running"}

Calls == 1..NumCalls

NoJob == [present |-> FALSE, pipeline |-> "", state |-> "", reason |-> ""]

JobEntry(p, s, r) == [present |-> TRUE, pipeline |-> p, state |-> s, reason |-> r]

\* EtcdPipelineInfo.JobCounts: a Go map; isNil is the nil map, a missing key reads 0.
NilCounts == [isNil |-> TRUE, n |-> [s \in JobStates |-> 0]]

Counts(f) == [isNil |-> FALSE, n |-> f]

JobKey(j) == <<"jobs", j>>

PipelineKey(p) == <<"pipelines", p>>

Keys == {JobKey(j) : j \in JobIDs} \cup {PipelineKey(p) : p \in PipelineNames}

\* Number of job entries of pipeline p in state s.
JobsIn(js, p, s) == Cardinality({j \in JobIDs : js[j].present /\ js[j].pipeline = p /\ js[j].state = s})

\* JobCounts of every pipeline agrees with the job entries.
Consistent(js, pls) == \A p \in PipelineNames : \A s \in JobStates : pls[p].n[s] = JobsIn(js, p, s)

IdleCall == [pc |-> "idle", op |-> "", job |-> "", state |-> "", reason |-> "", readJob |-> NoJob, readPl |-> NilCounts, readRev |-> <<0, 0>>, attempts |-> 0, result |-> ""]

\* ppsutil.UpdateJobState: decrement the pipeline's counter of the job's old
\* state, increment that of the new state, set the job's state and reason.
PpsutilUpdateJobState(pl, job, state, reason) ==
    LET dec == [pl.n EXCEPT ![job.state] = @ - 1]
        inc == [dec EXCEPT ![state] = @ + 1]
    IN [pl |-> Counts(inc), job |-> [job EXCEPT !.state = state, !.reason = reason]]

\* The job entry the callback of UpdateJobState reads on a retry.  A callback
\* that keeps the entry of its first run would use the stale call[c].readJob.
JobRead_Stale(c, j) == IF call[c].attempts > 0 THEN call[c].readJob ELSE jobs[j]

\* driver.UpdateJobState: the callback reads the job entry through the STM on
\* every run.
JobRead(c, j) == jobs[j]

\* DeleteJob without the counter update.
DeleteJobCounts_NoDecrement(pl, state) == pl

\* DeleteJob decrementing without the guard against a counter of 0.
DeleteJobCounts_Unguarded(pl, state) ==
    LET m == IF pl.isNil THEN [s \in JobStates |-> 0] ELSE pl.n
    IN Counts([m EXCEPT ![state] = @ - 1])

\* driver.DeleteJob: the pipeline update callback.
DeleteJobCounts(pl, state) ==
    LET m == IF pl.isNil THEN [s \in JobStates |-> 0] ELSE pl.n
    IN Counts(IF m[state] # 0 THEN [m EXCEPT ![state] = @ - 1] ELSE m)

\* The writes of a call's transaction, computed from what its callback read.
TxnWrites(c) ==
    LET k == call[c] IN
    IF k.op = "update"
    THEN PpsutilUpdateJobState(k.readPl, k.readJob, k.state, k.reason)
    ELSE [pl |-> DeleteJobCounts(k.readPl, k.readJob.state), job |-> NoJob]

\* One run of a call's callback: read the job entry, then the owning pipeline.
\* A missing job entry makes the callback return an error: nothing is written.
RunCallback(c, k) ==
    LET j == JobRead(c, k.job) IN
    IF ~j.present
    THEN call' = [call EXCEPT ![c] = [k EXCEPT !.pc = "done", !.result = "notfound", !.readJob = j, !.attempts = @ + 1]]
    ELSE call' = [call EXCEPT ![c] = [k EXCEPT !.pc = "read", !.readJob = j, !.readPl = pipelines[j.pipeline],
                                              !.readRev = <<rev[JobKey(k.job)], rev[PipelineKey(j.pipeline)]>>,
                                              !.attempts = @ + 1]]

\* The revisions of the keys the callback read are still current.
Unchanged(c) ==
    LET k == call[c] IN
    k.readRev = <<rev[JobKey(k.job)], rev[PipelineKey(k.readJob.pipeline)]>>

\* driver.UpdateJobState(jobID, state, reason): first run of the callback.
\* The reason string identifies the call.
UpdateJobState(c) ==
    /\ call[c].pc = "idle"
    /\ \E j \in JobIDs, s \in TargetStates :
         RunCallback(c, [call[c] EXCEPT !.op = "update", !.job = j, !.state = s, !.reason = ToString(c)])
    /\ UNCHANGED <<jobs, pipelines, rev, commits>>
    /\ UNCHANGED <<wdVars, runVars, upVars, idVars, ctorVars, mockVars, kvVars, unlinkVars, s3Vars, statVars>>

\* An ambient transaction that reads a job entry and hands it to DeleteJob.
DeleteJob(c) ==
    /\ call[c].pc = "idle"
    /\ \E j \in JobIDs :
         RunCallback(c, [call[c] EXCEPT !.op = "delete", !.job = j])
    /\ UNCHANGED <<jobs, pipelines, rev, commits>>
    /\ UNCHANGED <<wdVars, runVars, upVars, idVars, ctorVars, mockVars, kvVars, unlinkVars, s3Vars, statVars>>

\* NewSTM: the transaction commits when nothing it read has changed.
Commit(c) ==
    /\ call[c].pc = "read"
    /\ Unchanged(c)
    /\ LET k == call[c]
           w == TxnWrites(c)
           p == k.readJob.pipeline
       IN /\ jobs' = [jobs EXCEPT ![k.job] = w.job]
          /\ pipelines' = [pipelines EXCEPT ![p] = w.pl]
          /\ rev' = [rev EXCEPT ![JobKey(k.job)] = @ + 1, ![PipelineKey(p)] = @ + 1]
          /\ call' = [call EXCEPT ![c].pc = "done", ![c].result = "committed"]
          /\ commits' = Append(commits, c)
    /\ UNCHANGED <<wdVars, runVars, upVars, idVars, ctorVars, mockVars, kvVars, unlinkVars, s3Vars, statVars>>

\* NewSTM: on a commit conflict the callback is run again from scratch.
Retry(c) ==
    /\ call[c].pc = "read"
    /\ ~Unchanged(c)
    /\ RunCallback(c, call[c])
    /\ UNCHANGED <<jobs, pipelines, rev, commits>>
    /\ UNCHANGED <<wdVars, runVars, upVars, idVars, ctorVars, mockVars, kvVars, unlinkVars, s3Vars, statVars>>

InitCalls ==
    /\ rev = [k \in Keys |-> 0]
    /\ call = [c \in Calls |-> IdleCall]
    /\ commits = <<>>

---------------------------------------------------------------------------
(* MockDriver *)

\* NewMockDriver keeps the NumWorkers it is given, 0 included.
NewMockDriver_NoDefault(n) == n

\* NewMockDriver: options.NumWorkers of the copy it keeps.
NewMockDriver(n) == IF n = 0 THEN 1 ELSE n

\* A call on the MockDriver: the method, how often it invoked its callback,
\* whether the stats struct the callback got was a new zero-valued one, the
\* error the callback returned, and the error and number the call returned.
MockCall(op, cbs, fresh, cberr, err, n) ==
    [op |-> op, callbacks |-> cbs, freshStats |-> fresh, cbErr |-> cberr, err |-> err, n |-> n]

NoMockCall == MockCall("", 0, FALSE, "nil", "nil", 0)

\* MockDriver.WithData: stats := &pps.ProcessStats{}; err := cb(stats).
MockWithData(cberr) == MockCall("WithData", 1, TRUE, cberr, cberr, 0)

\* MockDriver.WithData, with a callback that returns nil or an error.
M_WithData ==
    /\ \E cberr \in {"nil", "callback"} : mcall' = MockWithData(cberr)
    /\ UNCHANGED <<mjobs, mpipelines, mconf, mopts, mseq>>
    /\ UNCHANGED <<storeVars, wdVars, runVars, upVars, idVars, ctorVars, kvVars, unlinkVars, s3Vars, statVars>>

\* MockDriver.RunUserCode
M_RunUserCode ==
    /\ mcall' = MockCall("RunUserCode", 0, FALSE, "nil", "nil", 0)
    /\ UNCHANGED <<mjobs, mpipelines, mconf, mopts, mseq>>
    /\ UNCHANGED <<storeVars, wdVars, runVars, upVars, idVars, ctorVars, kvVars, unlinkVars, s3Vars, statVars>>

\* MockDriver.RunUserErrorHandlingCode
M_RunUserErrorHandlingCode ==
    /\ mcall' = MockCall("RunUserErrorHandlingCode", 0, FALSE, "nil", "nil", 0)
    /\ UNCHANGED <<mjobs, mpipelines, mconf, mopts, mseq>>
    /\ UNCHANGED <<storeVars, wdVars, runVars, upVars, idVars, ctorVars, kvVars, unlinkVars, s3Vars, statVars>>

\* MockDriver.ReportUploadStats
M_ReportUploadStats ==
    /\ mcall' = MockCall("ReportUploadStats", 0, FALSE, "nil", "nil", 0)
    /\ UNCHANGED <<mjobs, mpipelines, mconf, mopts, mseq>>
    /\ UNCHANGED <<storeVars, wdVars, runVars, upVars, idVars, ctorVars, kvVars, unlinkVars, s3Vars, statVars>>

\* MockDriver.GetExpectedNumWorkers
M_GetExpectedNumWorkers ==
    /\ mcall' = MockCall("GetExpectedNumWorkers", 0, FALSE, "nil", "nil", mopts)
    /\ UNCHANGED <<mjobs, mpipelines, mconf, mopts, mseq>>
    /\ UNCHANGED <<storeVars, wdVars, runVars, upVars, idVars, ctorVars, kvVars, unlinkVars, s3Vars, statVars>>

\* A store: its jobs and pipelines collections.
Store(js, pls) == [jobs |-> js, pipelines |-> pls]

\* driver.UpdateJobState run alone: one transaction that reads the job entry
\* and writes the entry and the owning pipeline's counters; a missing entry
\* makes the callback return an error and nothing is written.
UpdateJobStateTxn(st, j, state, reason) ==
    IF ~st.jobs[j].present THEN st
    ELSE LET p == st.jobs[j].pipeline
             w == PpsutilUpdateJobState(st.pipelines[p], st.jobs[j], state, reason)
         IN Store([st.jobs EXCEPT ![j] = w.job], [st.pipelines EXCEPT ![p] = w.pl])

\* driver.DeleteJob run alone in its ambient transaction, which read the entry.
DeleteJobTxn(st, j) ==
    IF ~st.jobs[j].present THEN st
    ELSE LET p == st.jobs[j].pipeline
         IN Store([st.jobs EXCEPT ![j] = NoJob],
                  [st.pipelines EXCEPT ![p] = DeleteJobCounts(@, st.jobs[j].state)])

\* MockDriver.UpdateJobState writing the job entry only.
MockUpdateJobState_NoCounts(st, j, state, reason) ==
    IF ~st.jobs[j].present THEN st
    ELSE Store([st.jobs EXCEPT ![j] = [@ EXCEPT !.state = state, !.reason = reason]], st.pipelines)

\* MockDriver.UpdateJobState run alone: the same transaction as the driver's.
MockUpdateJobState(st, j, state, reason) ==
    IF ~st.jobs[j].present THEN st
    ELSE LET p == st.jobs[j].pipeline
             w == PpsutilUpdateJobState(st.pipelines[p], st.jobs[j], state, reason)
         IN Store([st.jobs EXCEPT ![j] = w.job], [st.pipelines EXCEPT ![p] = w.pl])

\* MockDriver.DeleteJob keeping the entry.
MockDeleteJob_NoDelete(st, j) == st

\* MockDriver.DeleteJob run alone in its ambient transaction: the entry is
\* deleted, the pipeline is not touched.
MockDeleteJob(st, j) ==
    IF ~st.jobs[j].present THEN st
    ELSE Store([st.jobs EXCEPT ![j] = NoJob], st.pipelines)

\* An operation of the sequence; done: the job entry existed.
Op(op, j, state, done) == [op |-> op, job |-> j, state |-> state, done |-> done]

\* The revisions after a transaction that turned store st into store t.
RevAfter(st, t) ==
    [k \in Keys |->
        IF \/ \E j \in JobIDs : k = JobKey(j) /\ st.jobs[j] # t.jobs[j]
           \/ \E q \in PipelineNames : k = PipelineKey(q) /\ st.pipelines[q] # t.pipelines[q]
        THEN rev[k] + 1 ELSE rev[k]]

\* UpdateJobState(j, state, reason) on the driver's store and on the
\* MockDriver's store.
Both_UpdateJobState ==
    /\ Len(mseq) < MaxOps
    /\ \E j \in JobIDs, s \in TargetStates :
         LET reason == ToString(Len(mseq) + 1)
             t == UpdateJobStateTxn(Store(jobs, pipelines), j, s, reason)
             m == MockUpdateJobState(Store(mjobs, mpipelines), j, s, reason)
         IN /\ jobs' = t.jobs /\ pipelines' = t.pipelines
            /\ rev' = RevAfter(Store(jobs, pipelines), t)
            /\ mjobs' = m.jobs /\ mpipelines' = m.pipelines
            /\ mcall' = MockCall("UpdateJobState", 0, FALSE, "nil",
                                 IF mjobs[j].present THEN "nil" ELSE "notfound", 0)
            /\ mseq' = Append(mseq, Op("update", j, s, jobs[j].present))
    /\ UNCHANGED <<call, commits, mconf, mopts>>
    /\ UNCHANGED <<wdVars, runVars, upVars, idVars, ctorVars, kvVars, unlinkVars, s3Vars, statVars>>

\* DeleteJob of job j on the driver's store and on the MockDriver's store.
Both_DeleteJob ==
    /\ Len(mseq) < MaxOps
    /\ \E j \in JobIDs :
         LET t == DeleteJobTxn(Store(jobs, pipelines), j)
             m == MockDeleteJob(Store(mjobs, mpipelines), j)
         IN /\ jobs' = t.jobs /\ pipelines' = t.pipelines
            /\ rev' = RevAfter(Store(jobs, pipelines), t)
            /\ mjobs' = m.jobs /\ mpipelines' = m.pipelines
            /\ mcall' = MockCall("DeleteJob", 0, FALSE, "nil",
                                 IF mjobs[j].present THEN "nil" ELSE "notfound", 0)
            /\ mseq' = Append(mseq, Op("delete", j, "", jobs[j].present))
    /\ UNCHANGED <<call, commits, mconf, mopts>>
    /\ UNCHANGED <<wdVars, runVars, upVars, idVars, ctorVars, kvVars, unlinkVars, s3Vars, statVars>>

\* No MockDriver: the state of the specifications about the driver.
IdleMock ==
    /\ mjobs = [j \in JobIDs |-> NoJob]
    /\ mpipelines = [p \in PipelineNames |-> NilCounts]
    /\ mconf = 0
    /\ mopts = NewMockDriver(0)
    /\ mcall = NoMockCall
    /\ mseq = <<>>

---------------------------------------------------------------------------
(* The chunk, merge, plan and shard collections *)

\* Strings are sequences of characters; a word that is never taken apart
\* ("pfx", "chunk", a pipeline name) stands as one character.
etcdPrefix == <<"/", "pfx">>

chunkPrefix == <<"/", "chunk">>

mergePrefix == <<"/", "merge">>

planPrefix == <<"/", "plan">>

shardPrefix == <<"/", "shard">>

\* Job ids, one of them a string prefix of another.
KeyJobIDs == {<<"1">>, <<"1", "0">>, <<"2">>}

ChunkIDs == {<<"0">>, <<"1">>}

ShardIDs == {<<"0">>, <<"1">>}

KeyPipelines == {<<p>> : p \in PipelineNames}

\* The elements of a path: the runs of characters between slashes.
RECURSIVE Split(_, _)
Split(s, cur) ==
    LET done == IF cur = <<>> THEN <<>> ELSE <<cur>> IN
    IF s = <<>> THEN done
    ELSE IF Head(s) = "/" THEN done \o Split(Tail(s), <<>>)
    ELSE Split(Tail(s), Append(cur, Head(s)))

\* strings.Join(elems, "/")
RECURSIVE StringsJoin(_)
StringsJoin(elems) ==
    IF elems = <<>> THEN <<>>
    ELSE IF Len(elems) = 1 THEN elems[1]
    ELSE elems[1] \o <<"/">> \o StringsJoin(Tail(elems))

\* path.Clean of a non-empty path without "." and ".." elements: repeated
\* slashes become one and a trailing slash goes.
Clean(s) ==
    LET g == StringsJoin(Split(s, <<>>))
    IN IF Head(s) = "/" THEN <<"/">> \o g ELSE g

\* path.Join: empty elements are ignored, the result is cleaned.
PathJoin(elems) ==
    LET ne == SelectSeq(elems, LAMBDA e : e # <<>>)
    IN IF ne = <<>> THEN <<>> ELSE Clean(StringsJoin(ne))

HasPrefix(s, p) == Len(p) <= Len(s) /\ SubSeq(s, 1, Len(p)) = p

\* col.NewCollection: the prefix of a collection always ends with a slash.
NewCollection(prefix) ==
    [prefix |-> IF prefix # <<>> /\ prefix[Len(prefix)] # "/" THEN Append(prefix, "/") ELSE prefix]

\* collection.Path: the key of the entry with the given id.
Path(c, id) == PathJoin(<<c.prefix, id>>)

\* ReadWrite(stm).DeleteAll(): every entry under the collection's prefix goes.
DeleteAll(c, entries) == {e \in entries : ~HasPrefix(e.key, c.prefix)}

\* Chunks with a prefix that leaves the job id out.
Chunks_NoJob(jobID) == NewCollection(PathJoin(<<etcdPrefix, chunkPrefix>>))

\* driver.Chunks
Chunks(jobID) == NewCollection(PathJoin(<<etcdPrefix, chunkPrefix, jobID>>))

\* driver.Merges
Merges(jobID) == NewCollection(PathJoin(<<etcdPrefix, mergePrefix, jobID>>))

\* driver.Plans
Plans == NewCollection(PathJoin(<<etcdPrefix, planPrefix>>))

\* driver.Shards of the driver NewDriver built for the named pipeline.
Shards(pipelineName) == NewCollection(PathJoin(<<etcdPrefix, shardPrefix, pipelineName>>))

\* MockDriver.Chunks
MockChunks(jobID) == NewCollection(PathJoin(<<etcdPrefix, chunkPrefix, jobID>>))

\* MockDriver.Merges
MockMerges(jobID) == NewCollection(PathJoin(<<etcdPrefix, mergePrefix, jobID>>))

\* MockDriver.Plans
MockPlans == NewCollection(PathJoin(<<etcdPrefix, planPrefix>>))

\* MockDriver.Shards of a MockDriver whose options name the pipeline.
MockShards(pipelineName) == NewCollection(PathJoin(<<etcdPrefix, shardPrefix>>))

Drivers == {"driver", "mock"}

\* What an entry is: a chunk or merge of a job, the plan of a job, a shard of
\* a pipeline.
Entity(kind, whose, id) == [kind |-> kind, owner |-> whose, id |-> id]

Entities ==
    {Entity(k, j, c) : k \in {"chunk", "merge"}, j \in KeyJobIDs, c \in ChunkIDs}
    \cup {Entity("plan", <<>>, j) : j \in KeyJobIDs}
    \cup {Entity("shard", p, i) : p \in KeyPipelines, i \in ShardIDs}

\* The collection a driver of kind d hands out for entries of the given kind.
CollectionOf(d, kind, whose) ==
    CASE kind = "chunk" -> IF d = "driver" THEN Chunks(whose) ELSE MockChunks(whose)
      [] kind = "merge" -> IF d = "driver" THEN Merges(whose) ELSE MockMerges(whose)
      [] kind = "plan" -> IF d = "driver" THEN Plans ELSE MockPlans
      [] kind = "shard" -> IF d = "driver" THEN Shards(whose) ELSE MockShards(whose)

KeyOf(d, e) == Path(CollectionOf(d, e.kind, e.owner), e.id)

\* The last operation; removed: the number of entries it took away.
KeyOp(op, d, kind, whose, id, removed) ==
    [op |-> op, driver |-> d, kind |-> kind, owner |-> whose, id |-> id, removed |-> removed]

NoKeyOp == KeyOp("", "", "", <<>>, <<>>, 0)

\* ReadWrite(stm).Put of an entry through a collection of either driver.
K_Put ==
    /\ \E d \in Drivers, e \in Entities :
         LET key == KeyOf(d, e)
             old == {x \in kv : x.key = key}
         IN /\ Cardinality(kv) < MaxKeys \/ old # {}
            /\ kv' = (kv \ old) \cup {[key |-> key, ent |-> e]}
            /\ kop' = KeyOp("put", d, e.kind, e.owner, e.id, Cardinality(old \ {[key |-> key, ent |-> e]}))
    /\ UNCHANGED <<storeVars, wdVars, runVars, upVars, idVars, ctorVars, mockVars, unlinkVars, s3Vars, statVars>>

\* ReadWrite(stm).DeleteAll() on the chunks or merges of a job.
K_DeleteAll ==
    /\ \E d \in Drivers, kind \in {"chunk", "merge"}, j \in KeyJobIDs :
         LET left == DeleteAll(CollectionOf(d, kind, j), kv)
         IN /\ kv' = left
            /\ kop' = KeyOp("deleteAll", d, kind, j, <<>>, Cardinality(kv \ left))
    /\ UNCHANGED <<storeVars, wdVars, runVars, upVars, idVars, ctorVars, mockVars, unlinkVars, s3Vars, statVars>>

IdleKeys ==
    /\ kv = {}
    /\ kop = NoKeyOp

---------------------------------------------------------------------------
(* The S3 gateway: PUT object *)

\* The bytes a request body is made of.
Bytes == {0, 1}

\* The request bodies, up to MaxBody bytes long.
Bodies == UNION {[1..n -> Bytes] : n \in 0..MaxBody}

\* The digest stands in for MD5's sixteen bytes: DigestLen digits below Radix.
Radix == 3

DigestLen == 2

\* The sum of w(i) * body[i] over the body, w being 1 or the position.
RECURSIVE Fold(_, _)
Fold(body, byPos) ==
    IF body = <<>> THEN 0
    ELSE Fold(SubSeq(body, 1, Len(body) - 1), byPos)
         + (IF byPos THEN Len(body) ELSE 1) * body[Len(body)]

\* hasher.Sum(nil) after the whole body went through the TeeReader: the
\* digest of the body.
MD5(body) == <<Fold(body, FALSE) % Radix, (Len(body) + Fold(body, TRUE)) % Radix>>

\* The base64 alphabet, by digit value; "!" is a character outside it.
Base64Chars == <<"A", "B", "C">>

\* base64.StdEncoding.EncodeToString, as the client computes the header.
EncodeToString(digest) == [i \in 1..Len(digest) |-> Base64Chars[digest[i] + 1]]

\* base64.StdEncoding.DecodeString: the digits of the characters, an error
\* when a character is outside the alphabet.
DecodeString(str) ==
    IF \E i \in 1..Len(str) : str[i] = "!"
    THEN [err |-> TRUE, bytes |-> <<>>]
    ELSE [err |-> FALSE,
          bytes |-> [i \in 1..Len(str) |-> CHOOSE d \in 0..(Radix - 1) : Base64Chars[d + 1] = str[i]]]

\* The values of the Content-MD5 header: "" when the request carries none.
Headers == UNION {[1..n -> {"A", "B", "C", "!"}] : n \in 0..DigestLen}

\* The file is not on the branch.
NoFile == <<-1>>

StatusOK == 200

StatusBadRequest == 400

StatusInternalServerError == 500

\* What put leaves: the file on the branch and the status of the response.
PutResult(file, status) == [file |-> file, status |-> status]

\* objectHandler.put on a branch holding the file (or not): the header is
\* decoded, PutFileOverwrite writes the body read through the hasher, and
\* then the digest is compared with the header's; without a header the body
\* is written as it is. putErr: PutFileOverwrite fails, writing nothing.
Put(file, expectedHash, body, putErr) ==
    IF expectedHash # <<>>
    THEN LET decoded == DecodeString(expectedHash) IN
         IF decoded.err THEN PutResult(file, StatusBadRequest)
         ELSE IF putErr THEN PutResult(file, StatusInternalServerError)
         ELSE IF decoded.bytes # MD5(body) THEN PutResult(body, StatusBadRequest)
         ELSE PutResult(body, StatusOK)
    ELSE IF putErr THEN PutResult(file, StatusInternalServerError)
         ELSE PutResult(body, StatusOK)

\* A PUT object request as the handler served it: the header, the body,
\* whether PutFileOverwrite failed, the file before, the status answered.
S3Call(method, expectedHash, body, putErr, before, status) ==
    [method |-> method, header |-> expectedHash, body |-> body, putErr |-> putErr,
     before |-> before, status |-> status]

NoS3Call == S3Call("", <<>>, <<>>, FALSE, NoFile, 0)

\* ServeHTTP on a PUT without uploadId, on a branch that exists.
S3_Put ==
    /\ \E expectedHash \in Headers, body \in Bodies, putErr \in BOOLEAN :
         LET r == Put(branchFile, expectedHash, body, putErr) IN
         /\ branchFile' = r.file
         /\ s3call' = S3Call("PUT", expectedHash, body, putErr, branchFile, r.status)
    /\ UNCHANGED <<storeVars, wdVars, runVars, upVars, idVars, ctorVars, mockVars, kvVars, unlinkVars, statVars>>

IdleS3 ==
    /\ branchFile = NoFile
    /\ s3call = NoS3Call

---------------------------------------------------------------------------
(* Stats *)

\* The answers of Enterprise.GetState: a state, or an error.
Probes == {"active", "none", "expired", "error"}

\* Stats are exported whatever the probe said.
ExportStats_Always(p) == TRUE

\* NewDriver: exportStats is set only from a probe that answered ACTIVE.
ExportStats(p) == p = "active"

Series(m, state) == [metric |-> m, state |-> state]

\* The Prometheus vectors the driver updates, and the label values it uses.
AllSeries ==
    {Series(m, st) : m \in {"DatumCount"}, st \in {"started", "finished", "errored"}}
    \cup {Series("DatumProcTime", st) : st \in {"finished", "errored"}}
    \cup {Series(m, "") : m \in {"DatumProcSecondsCount", "DatumUploadTime", "DatumUploadSecondsCount",
                                 "DatumUploadSize", "DatumUploadBytesCount", "DatumDownloadSize",
                                 "DatumDownloadBytesCount", "DatumDownloadTime", "DatumDownloadSecondsCount"}}

NoMetrics == [x \in AllSeries |-> 0]

\* updateCounter / updateHistogram on each of the given series.
Update(m, xs) == [x \in AllSeries |-> IF x \in xs THEN m[x] + 1 ELSE m[x]]

\* driver.reportUserCodeStats
ReportUserCodeStats(m) ==
    IF exportStats THEN Update(m, {Series("DatumCount", "started")}) ELSE m

\* The deferred report labels every exit "errored".
ReportDeferredUserCodeStats_Errored(m, isNil) ==
    IF exportStats
    THEN Update(m, {Series("DatumCount", "errored"), Series("DatumProcTime", "errored"), Series("DatumProcSecondsCount", "")})
    ELSE m

\* driver.reportDeferredUserCodeStats
ReportDeferredUserCodeStats(m, isNil) ==
    LET state == IF isNil THEN "finished" ELSE "errored" IN
    IF exportStats
    THEN Update(m, {Series("DatumCount", state), Series("DatumProcTime", state), Series("DatumProcSecondsCount", "")})
    ELSE m

\* driver.ReportUploadStats
ReportUploadStats(m) ==
    IF exportStats
    THEN Update(m, {Series(x, "") : x \in {"DatumUploadTime", "DatumUploadSecondsCount", "DatumUploadSize", "DatumUploadBytesCount"}})
    ELSE m

\* driver.reportDownloadSizeStats
ReportDownloadSizeStats(m) ==
    IF exportStats
    THEN Update(m, {Series(x, "") : x \in {"DatumDownloadSize", "DatumDownloadBytesCount"}})
    ELSE m

\* driver.reportDownloadTimeStats
ReportDownloadTimeStats(m) ==
    IF exportStats
    THEN Update(m, {Series(x, "") : x \in {"DatumDownloadTime", "DatumDownloadSecondsCount"}})
    ELSE m

\* A driver whose probe did not answer ACTIVE and that has reported nothing.
IdleStats ==
    /\ probe = "none"
    /\ exportStats = ExportStats("none")
    /\ metrics = NoMetrics

\* NewDriver: the probe gives any answer.
InitStats ==
    /\ probe \in Probes
    /\ exportStats = ExportStats(probe)
    /\ metrics = NoMetrics

---------------------------------------------------------------------------
(* NewDriver: the user and group the user code runs as *)

\* User and group names, and the decimal strings used as uids and gids.
Names == {"app", "ops"}

Numbers == {"7", "8"}

\* A line of /etc/passwd (name:x:uid:gid:...) and a line of /etc/group
\* (name:x:gid:...).
PasswdLines == [name : Names, uid : Numbers, gid : Numbers]

GroupLines == [name : Names, gid : Numbers]

File(ls) == [present |-> TRUE, lines |-> ls]

Missing == [present |-> FALSE, lines |-> <<>>]

\* strings.Split(userArg, ":"): the user part and the group part ("" when
\* absent).
UserArg(u, g) == [user |-> u, group |-> g]

\* Transform.User == ""
NoUserArg == UserArg("", "")

NoUser == [found |-> FALSE, name |-> "", uid |-> "", gid |-> "", err |-> "nil"]

\* The index of the first line the scanner reads that matches, 0 when none
\* does.
FirstLine(matching) ==
    IF matching = {} THEN 0
    ELSE CHOOSE k \in matching : \A j \in matching : k <= j

\* lookupGroup
LookupGroup(group) ==
    IF ~groupFile.present THEN [gid |-> "", err |-> "notExist"]
    ELSE LET Match(l) == l.name = group
             k == FirstLine({i \in 1..Len(groupFile.lines) : Match(groupFile.lines[i])}) IN
         IF k = 0 THEN [gid |-> "", err |-> "groupNotFound"]
         ELSE [gid |-> groupFile.lines[k].gid, err |-> "nil"]

\* lookupDockerUser, on a matching line and a group part: the group part is a
\* group name when the user part was the line's name, a gid otherwise.
GroupOf(l, arg) ==
    IF l.name = arg.user
    THEN LookupGroup(arg.group)
    ELSE [gid |-> arg.group, err |-> "nil"]

\* lookupDockerUser
LookupDockerUser(arg) ==
    IF ~passwd.present THEN [NoUser EXCEPT !.err = "notExist"]
    ELSE LET Match(l) == l.name = arg.user \/ l.uid = arg.user
             k == FirstLine({i \in 1..Len(passwd.lines) : Match(passwd.lines[i])}) IN
         IF k = 0 THEN [NoUser EXCEPT !.err = "userNotFound"]
         ELSE LET l == passwd.lines[k]
                  u == [found |-> TRUE, name |-> l.name, uid |-> l.uid, gid |-> l.gid, err |-> "nil"] IN
              IF arg.group # ""
              THEN LET g == GroupOf(l, arg) IN
                   IF g.err # "nil" THEN [NoUser EXCEPT !.err = g.err]
                   ELSE [u EXCEPT !.gid = g.gid]
              ELSE u

\* strconv.ParseUint(s, 10, 32) succeeds
ParseUint(s) == s \in Numbers

\* os.IsNotExist
IsNotExist(err) == err = "notExist"

\* Any lookup error leaves the identity unset and lets construction go on.
Identity_IgnoreErrors(arg) ==
    LET r == LookupDockerUser(arg) IN
    IF arg = NoUserArg \/ ~r.found
    THEN [uid |-> "unset", gid |-> "unset", err |-> "nil"]
    ELSE [uid |-> IF ParseUint(r.uid) THEN r.uid ELSE "unset",
          gid |-> IF ParseUint(r.gid) THEN r.gid ELSE "unset",
          err |-> "nil"]

\* NewDriver, from the test of Transform.User to the assignment of result.gid:
\* the uid and gid of the result under construction and the error returned.
Identity(arg) ==
    IF arg = NoUserArg THEN [uid |-> "unset", gid |-> "unset", err |-> "nil"]
    ELSE LET r == LookupDockerUser(arg) IN
         IF r.err # "nil" /\ ~IsNotExist(r.err) THEN [uid |-> "unset", gid |-> "unset", err |-> r.err]
         ELSE IF ~r.found THEN [uid |-> "unset", gid |-> "unset", err |-> "nil"]
         ELSE IF ~ParseUint(r.uid) THEN [uid |-> "unset", gid |-> "unset", err |-> "parseUid"]
         ELSE IF ~ParseUint(r.gid) THEN [uid |-> r.uid, gid |-> "unset", err |-> "parseGid"]
         ELSE [uid |-> r.uid, gid |-> r.gid, err |-> "nil"]

\* NewDriver up to the enterprise probe: the user lookup.
ND_User ==
    /\ npc = "new"
    /\ LET id == Identity(userArg) IN
       /\ uid' = id.uid
       /\ gid' = id.gid
       /\ nerr' = id.err
       /\ npc' = IF id.err = "nil" THEN "probe" ELSE "failed"
       /\ custom' = (id.err = "nil" /\ id.uid # "unset" /\ id.gid # "unset")
    /\ UNCHANGED <<userArg, passwd, groupFile, owner, mockVars, kvVars, unlinkVars, s3Vars>>
    /\ UNCHANGED <<storeVars, wdVars, runVars, upVars, statVars>>

\* NewDriver: the enterprise probe, and the return of the driver.
ND_Probe ==
    /\ npc = "probe"
    /\ exportStats' = ExportStats(probe)
    /\ npc' = "done"
    /\ UNCHANGED <<probe, metrics>>
    /\ UNCHANGED <<storeVars, wdVars, runVars, upVars, idVars>>
    /\ UNCHANGED <<userArg, passwd, groupFile, uid, gid, nerr, mockVars, kvVars, unlinkVars, s3Vars>>

\* A driver whose construction is not followed: no user was configured.
IdleNewDriver ==
    /\ userArg = NoUserArg
    /\ passwd = Missing
    /\ groupFile = Missing
    /\ npc = "idle"
    /\ uid = "unset"
    /\ gid = "unset"
    /\ nerr = "nil"

---------------------------------------------------------------------------
(* WithData *)

Inputs == 1..NumInputs

\* Entries of inputDir: input i is linked as i, out as LinkOut; Stray is an
\* entry that no WithData invocation created.
LinkOut == 0

Stray == -1

\* The links linkData creates, in the order it creates them.
LinkOrder == [i \in 1..(NumInputs + 1) |-> IF i <= NumInputs THEN i ELSE LinkOut]

\* ioutil.ReadDir returns the entries sorted by name.
DirOrder == [i \in 1..(NumInputs + 2) |-> IF i <= NumInputs THEN i ELSE IF i = NumInputs + 1 THEN LinkOut ELSE Stray]

\* An error: what failed and the commit SHA its message quotes ("" when it
\* quotes none).
Err(what, sha) == [what |-> what, sha |-> sha]

NoErr == Err("nil", "")

\* payload.After of the git input i, and the commit at the tip of payload.Ref.
After(i) == "sha" \o ToString(i)

RefTip == "tip"

\* The calls of downloadGitData that can fail, in order.
GitCalls == <<"getFile", "unmarshal", "cloneURL", "ref", "after", "clone", "worktree", "checkout", "resolveRevision">>

\* One run of staging input i: the call that fails ("none" when all succeed)
\* and, for a git input, the commit HEAD is at after the checkout.  go-git
\* leaves HEAD at the tip of the ref when the SHA is not in what it fetched.
Run(fail, head) == [fail |-> fail, head |-> head]

GitRuns(i) ==
    {Run(GitCalls[k], RefTip) : k \in 1..Len(GitCalls)}
    \cup {Run("none", h) : h \in {After(i), RefTip}}

\* puller.Pull succeeds or fails.
PullRuns == {Run("none", ""), Run("pull", "")}

\* An input downloadData did not get to.
NoRun == Run("", "")

Runs(i) == IF data[i] = "git" THEN GitRuns(i) ELSE PullRuns

\* HEAD is not compared with the SHA asked for.
DownloadGitData_NoVerify(i, g) ==
    IF g.fail = "checkout" THEN Err("checkout", After(i))
    ELSE IF g.fail # "none" THEN Err(g.fail, "")
    ELSE NoErr

\* driver.downloadGitData: the error it returns on run g of input i.
DownloadGitData(i, g) ==
    IF g.fail = "checkout" THEN Err("checkout", After(i))
    ELSE IF g.fail # "none" THEN Err(g.fail, "")
    ELSE IF g.head # After(i) THEN Err("couldNotFindSHA", After(i))
    ELSE NoErr

\* The loop body of downloadData: the error staging input i gives on run g.
StageInput(i, g) ==
    IF data[i] = "git" THEN DownloadGitData(i, g)
    ELSE IF g.fail = "pull" THEN Err("pull", "") ELSE NoErr

\* The first input whose staging fails, 0 when none does.
FirstFailing(runs) ==
    IF \E i \in Inputs : StageInput(i, runs[i]) # NoErr
    THEN CHOOSE i \in Inputs : /\ StageInput(i, runs[i]) # NoErr
                               /\ \A j \in 1..(i - 1) : StageInput(j, runs[j]) = NoErr
    ELSE 0

\* Where downloadData can fail before it stages the inputs: creating the
\* scratch directory (which may leave it half made), creating the spout fifo;
\* or nowhere.
DownloadSteps ==
    {[step |-> "mkdir", made |-> b] : b \in BOOLEAN}
    \cup {[step |-> "fifo", made |-> TRUE]}
    \cup {[step |-> "none", made |-> TRUE]}

\* driver.downloadData failing at f, or staging the inputs on the given runs:
\* the path and error it returns, whether the scratch directory exists
\* afterwards, how many inputs were staged and the runs it went through.
\* Every error return gives the empty path.
DownloadData(f, runs) ==
    LET k == FirstFailing(runs)
        none == [i \in Inputs |-> NoRun] IN
    IF f.step = "mkdir"
    THEN [dir |-> "", err |-> Err("mkdirall", ""), scratch |-> f.made, staged |-> 0, staging |-> none]
    ELSE IF f.step = "fifo"
    THEN [dir |-> "", err |-> Err("mkfifo", ""), scratch |-> TRUE, staged |-> 0, staging |-> none]
    ELSE IF k # 0
    THEN [dir |-> "", err |-> StageInput(k, runs[k]), scratch |-> TRUE, staged |-> k - 1,
          staging |-> [i \in Inputs |-> IF i <= k THEN runs[i] ELSE NoRun]]
    ELSE [dir |-> "scratchPath", err |-> NoErr, scratch |-> TRUE, staged |-> NumInputs,
          staging |-> runs]

\* Registration order with the scratch removal deferred last, so that it
\* would run first.
DefersAfterDownload_Swapped == <<"cleanUp", "removeAll">>

\* driver.WithData: the deferred functions registered right after
\* downloadData; they run last registered first.
DefersAfterDownload == <<"removeAll", "cleanUp">>

\* The error of the cleanup that ran last is kept.
KeepFirst_Last(old, err) == IF err # "nil" THEN err ELSE old

\* A caller that goes on to the callback whatever linkData returned.
AfterLink_Ignore(ok) == "callback"

\* driver.WithData: linkData's error ends the function.
AfterLink(ok) == IF ok THEN "callback" ELSE "defers"

\* retErr after a deferred function returned err: the first error is kept.
KeepFirst(old, err) == IF err # "nil" /\ old = "nil" THEN err ELSE old

\* os.RemoveAll(path) of the scratch directory: the empty path removes nothing
\* and returns nil.
RemoveAll(path, ok) ==
    IF path = ""
    THEN [scratch |-> scratch, err |-> "nil"]
    ELSE IF ok THEN [scratch |-> FALSE, err |-> "nil"] ELSE [scratch |-> scratch, err |-> "removeAll"]

\* client.PPSScratchSpace, the scratch marker: the entry of inputDir below
\* which the scratch directories are made.
ScratchSpace == -2

\* ioutil.ReadDir(d.inputDir) of a directory holding the given entries: the
\* entries sorted by name, the marker first.
ReadDir(entries) == SelectSeq(<<ScratchSpace>> \o DirOrder, LAMBDA e : e \in entries)

\* unlinkData removing every entry, the scratch marker included.
UnlinkEntries_NoSkip(listing, k) ==
    LET gone == {listing[i] : i \in 1..k}
    IN [entries |-> {listing[i] : i \in 1..Len(listing)} \ gone,
        err |-> IF k < Len(listing) THEN "unlinkData" ELSE "nil"]

\* driver.unlinkData on the listing ReadDir returned: os.RemoveAll of every
\* entry but the scratch marker, in order; k entries are removed before a
\* removal fails, which ends the loop with that error.
UnlinkEntries(listing, k) ==
    LET targets == SelectSeq(listing, LAMBDA e : e # ScratchSpace)
        gone == {targets[i] : i \in {j \in 1..Len(targets) : j <= k}}
    IN [entries |-> {listing[i] : i \in 1..Len(listing)} \ gone,
        err |-> IF k < Len(targets) THEN "unlinkData" ELSE "nil"]

\* driver.unlinkData within WithData, where inputDir holds the entries other
\* than the marker (k = 0 also when ReadDir itself fails).
UnlinkData(k) == UnlinkEntries(ReadDir(inputDir), k)

\* A call of unlinkData: the inputs it was given, inputDir as it found it, the
\* number of entries it removed before a removal failed, its error.
UnlinkCall(op, inputs, before, k, err) ==
    [op |-> op, inputs |-> inputs, before |-> before, k |-> k, err |-> err]

\* What is in inputDir: its entries, and the scratch directories below the
\* marker ("this" datum's, "other").
Dir(entries, below) == [entries |-> entries, below |-> below]

\* unlinkData(inputs) on any inputDir; what is below an entry goes with it.
UL_UnlinkData ==
    /\ \E inputs \in SUBSET Inputs, k \in 0..Cardinality(idir.entries) :
         LET r == UnlinkEntries(ReadDir(idir.entries), k) IN
         /\ idir' = Dir(r.entries, IF ScratchSpace \in r.entries THEN idir.below ELSE {})
         /\ ucall' = UnlinkCall("unlinkData", inputs, idir, k, r.err)
    /\ UNCHANGED <<storeVars, wdVars, runVars, upVars, idVars, ctorVars, mockVars, kvVars, s3Vars, statVars>>

\* linkData and the staging of the next datum fill inputDir again.
UL_Refill ==
    /\ ucall.op = "unlinkData"
    /\ \E es \in SUBSET ({ScratchSpace, LinkOut, Stray} \cup Inputs), b \in SUBSET {"this", "other"} :
         /\ b # {} => ScratchSpace \in es
         /\ idir' = Dir(es, b)
    /\ ucall' = UnlinkCall("", {}, Dir({}, {}), 0, "nil")
    /\ UNCHANGED <<storeVars, wdVars, runVars, upVars, idVars, ctorVars, mockVars, kvVars, s3Vars, statVars>>

IdleUnlink ==
    /\ idir = Dir({}, {})
    /\ ucall = UnlinkCall("", {}, Dir({}, {}), 0, "nil")

\* linkData: symlink every input, then out, into inputDir; k links are made
\* before a symlink call fails.
LinkData(k) ==
    [entries |-> inputDir \cup {LinkOrder[i] : i \in 1..k}, ok |-> k = NumInputs + 1]

\* The entries under inputDir whose owner matters: inputDir itself, the
\* scratch directories, what was staged for each input, the out directory,
\* and the links linkData made.
Ent(t, i) == [t |-> t, i |-> i]

Ents ==
    {Ent(t, 0) : t \in {"inputDir", "scratch", "outDir", "outLink"}}
    \cup {Ent(t, i) : t \in {"staged", "link"}, i \in Inputs}

\* filepath.Walk(d.inputDir, ...) visits inputDir, then its entries by name:
\* the scratch marker and what is below it, then the links.
ChownOrder ==
    <<Ent("inputDir", 0), Ent("scratch", 0)>>
    \o [i \in Inputs |-> Ent("staged", i)]
    \o <<Ent("outDir", 0)>>
    \o [i \in Inputs |-> Ent("link", i)]
    \o <<Ent("outLink", 0)>>

\* os.Chown follows a symbolic link: the owner of the link's target changes,
\* not the owner of the link.
ChownTarget(e) ==
    IF e.t = "link" THEN Ent("staged", e.i)
    ELSE IF e.t = "outLink" THEN Ent("outDir", 0)
    ELSE e

\* The walk stops at the first error and its result is dropped.
ChownWalk_Unset(own, k, isSet) == own

\* driver.WithData: when uid and gid are set, walk inputDir and chown what
\* the walk visits; k entries are visited before an Lstat or Chown fails. The
\* walk's error is not looked at.
ChownWalk(own, k, isSet) ==
    IF isSet
    THEN [e \in Ents |-> IF \E j \in 1..k : ChownTarget(ChownOrder[j]) = e THEN "custom" ELSE own[e]]
    ELSE own

\* WithData, up to the check of downloadData's error.
WD_Download ==
    /\ wpc = "start"
    /\ \E f \in DownloadSteps, runs \in [Inputs -> UNION {Runs(i) : i \in Inputs}] :
         /\ f.step = "fifo" => spout
         /\ \A i \in Inputs : runs[i] \in Runs(i)
         /\ LET r == DownloadData(f, runs) IN
            /\ scratch' = r.scratch
            /\ staging' = r.staging
            /\ staged' = r.staged
            /\ dir' = r.dir
            /\ derr' = r.err
            /\ defers' = DefersAfterDownload
            /\ IF r.err # NoErr
               THEN /\ retErr' = "downloadData"
                    /\ wpc' = "defers"
                    /\ wlog' = Append(wlog, "stageFailed")
               ELSE /\ retErr' = "nil"
                    /\ wpc' = "mkdir"
                    /\ wlog' = Append(wlog, "staged")
    /\ metrics' = ReportDownloadTimeStats(metrics)
    /\ UNCHANGED <<data, spout, inputDir, wstats, probe, exportStats, storeVars, runVars, upVars, idVars, ctorVars, mockVars, kvVars, unlinkVars, s3Vars>>

\* os.MkdirAll(d.inputDir)
WD_MkdirInputDir ==
    /\ wpc = "mkdir"
    /\ \E ok \in BOOLEAN :
         /\ wpc' = IF ok THEN "link" ELSE "defers"
         /\ retErr' = IF ok THEN retErr ELSE "mkdirInputDir"
    /\ UNCHANGED <<data, spout, scratch, dir, derr, staging, wstats, staged, inputDir, defers, wlog, storeVars, runVars, upVars, idVars, ctorVars, mockVars, kvVars, unlinkVars, s3Vars, statVars>>

\* d.linkData(data, dir), the registration of the deferred unlinkData, and
\* the chown walk.
WD_Link ==
    /\ wpc = "link"
    /\ \E k \in 0..(NumInputs + 1), c \in 0..Len(ChownOrder) :
         LET r == LinkData(k) IN
         /\ (~r.ok \/ ~custom) => c = 0
         /\ owner' = IF r.ok THEN ChownWalk(owner, c, custom) ELSE owner
         /\ inputDir' = r.entries
         /\ wpc' = AfterLink(r.ok)
         /\ retErr' = IF r.ok THEN retErr ELSE "linkData"
         /\ defers' = IF r.ok THEN Append(defers, "unlinkData") ELSE defers
         /\ wlog' = Append(wlog, IF r.ok THEN "linked" ELSE "linkFailed")
    /\ UNCHANGED <<data, spout, scratch, dir, derr, staging, wstats, staged, custom, storeVars, runVars, upVars, ctorVars, mockVars, kvVars, unlinkVars, s3Vars, statVars>>

\* cb(stats)
WD_Callback ==
    /\ wpc = "callback"
    /\ \E ok \in BOOLEAN :
         /\ wpc' = IF ok THEN "drain" ELSE "defers"
         /\ retErr' = IF ok THEN retErr ELSE "callback"
    /\ wlog' = Append(wlog, "callback")
    /\ UNCHANGED <<data, spout, scratch, dir, derr, staging, wstats, staged, inputDir, defers, storeVars, runVars, upVars, idVars, ctorVars, mockVars, kvVars, unlinkVars, s3Vars, statVars>>

\* What the drain did: how puller.CleanUp ended, whether its byte count was
\* added to stats.DownloadBytes, and the retStats WithData returns.
Drain(how, credited, ret) == [drain |-> how, credited |-> credited, ret |-> ret]

\* WithData returns nil stats on every path but the last, and before the drain.
NoDrain == Drain("none", FALSE, "nil")

\* The error of the drain is logged and the function goes on.
AfterDrain_IgnoreError(ok) == Drain(IF ok THEN "ok" ELSE "failed", TRUE, "stats")

\* After the puller.CleanUp that follows the callback: its error is returned
\* with nil stats; otherwise the bytes are credited and the stats returned.
AfterDrain(ok) ==
    IF ok THEN Drain("ok", TRUE, "stats") ELSE Drain("failed", FALSE, "nil")

\* The puller.CleanUp call that follows the callback and, when it succeeds,
\* the credit to stats.DownloadBytes and the report of the download size.
WD_Drain ==
    /\ wpc = "drain"
    /\ \E ok \in BOOLEAN :
         LET r == AfterDrain(ok) IN
         /\ wstats' = r
         /\ retErr' = IF r.ret = "stats" THEN "nil" ELSE "drain"
         /\ metrics' = IF r.credited THEN ReportDownloadSizeStats(metrics) ELSE metrics
    /\ wpc' = "defers"
    /\ wlog' = Append(wlog, "cleanUp")
    /\ UNCHANGED <<data, spout, scratch, dir, derr, staging, staged, inputDir, defers, probe, exportStats, storeVars, runVars, upVars, idVars, ctorVars, mockVars, kvVars, unlinkVars, s3Vars>>

\* The deferred unlinkData.
WD_DeferUnlink ==
    /\ wpc = "defers" /\ defers # <<>> /\ defers[Len(defers)] = "unlinkData"
    /\ \E k \in 0..Cardinality(inputDir) :
         LET r == UnlinkData(k) IN
         /\ inputDir' = r.entries
         /\ retErr' = KeepFirst(retErr, r.err)
         /\ wlog' = Append(wlog, IF r.err = "nil" THEN "unlinkData" ELSE "unlinkDataFailed")
    /\ defers' = SubSeq(defers, 1, Len(defers) - 1)
    /\ UNCHANGED <<data, spout, wpc, scratch, dir, derr, staging, wstats, staged, storeVars, runVars, upVars, idVars, ctorVars, mockVars, kvVars, unlinkVars, s3Vars, statVars>>

\* The deferred puller.CleanUp.
WD_DeferCleanUp ==
    /\ wpc = "defers" /\ defers # <<>> /\ defers[Len(defers)] = "cleanUp"
    /\ \E ok \in BOOLEAN :
         /\ retErr' = KeepFirst(retErr, IF ok THEN "nil" ELSE "cleanUp")
         /\ wlog' = Append(wlog, IF ok THEN "cleanUp" ELSE "cleanUpFailed")
    /\ defers' = SubSeq(defers, 1, Len(defers) - 1)
    /\ UNCHANGED <<data, spout, wpc, scratch, dir, derr, staging, wstats, staged, inputDir, storeVars, runVars, upVars, idVars, ctorVars, mockVars, kvVars, unlinkVars, s3Vars, statVars>>

\* The deferred os.RemoveAll(dir).
WD_DeferRemoveAll ==
    /\ wpc = "defers" /\ defers # <<>> /\ defers[Len(defers)] = "removeAll"
    /\ \E ok \in BOOLEAN :
         LET r == RemoveAll(dir, ok) IN
         /\ scratch' = r.scratch
         /\ retErr' = KeepFirst(retErr, r.err)
         /\ wlog' = Append(wlog, IF r.err = "nil" THEN "removeAll" ELSE "removeAllFailed")
    /\ defers' = SubSeq(defers, 1, Len(defers) - 1)
    /\ UNCHANGED <<data, spout, wpc, dir, derr, staging, wstats, staged, inputDir, storeVars, runVars, upVars, idVars, ctorVars, mockVars, kvVars, unlinkVars, s3Vars, statVars>>

\* WithData returns to its caller once every deferred function has run.
WD_Return ==
    /\ wpc = "defers" /\ defers = <<>>
    /\ wpc' = "returned"
    /\ wlog' = Append(wlog, "return")
    /\ UNCHANGED <<data, spout, scratch, dir, derr, staging, wstats, staged, inputDir, defers, retErr, storeVars, runVars, upVars, idVars, ctorVars, mockVars, kvVars, unlinkVars, s3Vars, statVars>>

\* No WithData invocation: the state of the specifications about the store.
IdleWithData ==
    /\ custom = FALSE
    /\ owner = [e \in Ents |-> "worker"]
    /\ IdleNewDriver
    /\ data = [i \in Inputs |-> "pfs"]
    /\ spout = FALSE
    /\ wpc = "idle"
    /\ scratch = FALSE
    /\ dir = ""
    /\ derr = NoErr
    /\ wstats = NoDrain
    /\ staging = [i \in Inputs |-> NoRun]
    /\ staged = 0
    /\ inputDir = {}
    /\ defers = <<>>
    /\ retErr = "nil"
    /\ wlog = <<>>

IdleStore ==
    /\ InitCalls
    /\ jobs = [j \in JobIDs |-> NoJob]
    /\ pipelines = [p \in PipelineNames |-> NilCounts]

---------------------------------------------------------------------------
(* UploadOutput *)

\* An entry of the output directory. A link's target is outside inputDir
\* ("outside"), under inputDir below the name of the datum's input `input`
\* ("input"), or under inputDir below a name that is no input ("other");
\* tkind says whether a link into an input names a file or a directory, size
\* is the length of the (dereferenced) file.
Entry(kind, utf8, size, to, input, tkind) ==
    [kind |-> kind, utf8 |-> utf8, size |-> size, to |-> to, input |-> input, tkind |-> tkind]

FileSizes == 0..MaxFileSize

Entries ==
    {Entry("dir", TRUE, 0, "", 0, "")}
    \cup {Entry("fifo", u, 0, "", 0, "") : u \in BOOLEAN}
    \cup {Entry("file", TRUE, n, "", 0, "") : n \in FileSizes}
    \cup {Entry("file", FALSE, 0, "", 0, "")}
    \cup {Entry("link", TRUE, n, t, 0, "file") : n \in FileSizes, t \in {"outside", "other"}}
    \cup {Entry("link", TRUE, 0, "input", i, t) : i \in Inputs, t \in {"file", "dir"}}

\* The block whose hash UploadOutput draws for the invocation.
Block == "new"

BlockRef(b, lo, hi) == [block |-> b, lower |-> lo, upper |-> hi]

\* pachClient.InspectFile on a file of input i: inputs with an odd index hold
\* files made of two objects and one block reference, the others files made of
\* two block references.
FileInfoOf(i) ==
    IF i % 2 = 1
    THEN [hash |-> "hA", size |-> 3, objects |-> <<"oA", "oB">>, blockRefs |-> <<BlockRef("bC", 0, 1)>>]
    ELSE [hash |-> "hB", size |-> 2, objects |-> <<>>, blockRefs |-> <<BlockRef("bD", 0, 1), BlockRef("bE", 4, 5)>>]

\* pachClient.InspectObject(hash).BlockRef
ObjectBlockRef(o) == BlockRef(IF o = "oA" THEN "bA" ELSE "bB", 2, 3)

\* The block references UploadOutput collects for an input file: one per
\* object, then the file's own.
CollectBlockRefs(fi) ==
    [j \in 1..Len(fi.objects) |-> ObjectBlockRef(fi.objects[j])] \o fi.blockRefs

DirNode(path) == [path |-> path, kind |-> "dir", hash |-> "", size |-> 0, refs |-> <<>>]

FileNode(path, hash, size, refs) == [path |-> path, kind |-> "file", hash |-> hash, size |-> size, refs |-> refs]

\* The entry is read and sent on the PutObjects stream.
Uploads(e) == e.kind = "file" \/ (e.kind = "link" /\ e.to # "input")

\* Number of non-empty reads it takes to read a file through the buffer.
NumReads(size) == (size + BufLen - 1) \div BufLen

\* Bytes sent once j buffers of a file of the given size went out.
SentAfter(size, j) == IF j * BufLen < size THEN j * BufLen ELSE size

NoFail == [fail |-> "none", at |-> 0, fclose |-> TRUE]

\* What can go wrong while the walk function handles entry e: the error Walk
\* passes in, Readlink, the Lstat of the inner walk's root, InspectFile,
\* InspectObject, Open, the j-th Read, the j-th Send, and the deferred Close of
\* the file.
VisitChoices(e) ==
    {NoFail, [NoFail EXCEPT !.fail = "stat"]}
    \cup (IF e.utf8 /\ e.kind = "link" THEN {[NoFail EXCEPT !.fail = "readlink"]} ELSE {})
    \cup (IF e.utf8 /\ e.kind = "link" /\ e.to = "input"
          THEN {[NoFail EXCEPT !.fail = f] : f \in {"lstatInner", "inspectFile"}}
               \cup (IF FileInfoOf(e.input).objects # <<>> THEN {[NoFail EXCEPT !.fail = "inspectObject"]} ELSE {})
          ELSE {})
    \cup (IF e.utf8 /\ Uploads(e)
          THEN {[NoFail EXCEPT !.fail = "open"], [NoFail EXCEPT !.fclose = FALSE]}
               \cup {[fail |-> "read", at |-> j, fclose |-> c] : j \in 1..(NumReads(e.size) + 1), c \in BOOLEAN}
               \cup {[fail |-> "send", at |-> j, fclose |-> c] : j \in 1..NumReads(e.size), c \in BOOLEAN}
          ELSE {})

Visited(err, nodes, bytes, size, closeErr) ==
    [err |-> err, nodes |-> nodes, bytes |-> bytes, size |-> size, closeErr |-> closeErr]

\* The offset is left where it was after a file was uploaded.
NextOffset_NoAdvance(off, size) == off

\* UploadOutput: offset += uint64(size)
NextOffset(off, size) == off + size

\* The node of an uploaded file: one reference into the invocation's block.
UploadedNode(k, off, size) == FileNode(<<k>>, "sha", size, <<BlockRef(Block, off, off + size)>>)

\* The part of the walk function that opens, reads and sends a file.
UploadFile(e, k, off, ch) ==
    IF ch.fail = "open" THEN Visited("open", <<>>, 0, 0, FALSE)
    ELSE IF ch.fail \in {"read", "send"}
    THEN Visited(ch.fail, <<>>, SentAfter(e.size, ch.at - 1), 0, ~ch.fclose)
    ELSE Visited("nil", <<UploadedNode(k, off, e.size)>>, e.size, e.size, ~ch.fclose)

\* The inner walk over the target of a link into input i. Its root is the
\* relative path filepath.Join(relPath, pathWithInput), looked up from the
\* worker's working directory: the Lstat of that root fails unless such a
\* path happens to exist there.
WalkInput(e, k, ch) ==
    LET fi == FileInfoOf(e.input)
        dirs == IF e.tkind = "dir" THEN <<DirNode(<<k>>)>> ELSE <<>>
        path == IF e.tkind = "dir" THEN <<k, 1>> ELSE <<k>>
    IN IF ch.fail = "lstatInner" THEN Visited("lstatInner", <<>>, 0, 0, FALSE)
       ELSE IF ch.fail \in {"inspectFile", "inspectObject"} THEN Visited(ch.fail, dirs, 0, 0, FALSE)
       ELSE Visited("nil", Append(dirs, FileNode(path, fi.hash, fi.size, CollectBlockRefs(fi))), 0, 0, FALSE)

\* Named pipes are handled like any other file.
SpecialFile_NoCheck(e) == FALSE

\* UploadOutput: info.Mode() & os.ModeNamedPipe
SpecialFile(e) == e.kind = "fifo"

\* Every link whose target is under inputDir is taken for a link to an input
\* file, whether or not the name below inputDir is one of the inputs.
Visit_AnyLinkUnderInputDir(e, k, off, ch) ==
    IF ch.fail = "stat" THEN Visited("stat", <<>>, 0, 0, FALSE)
    ELSE IF ~e.utf8 THEN Visited("utf8", <<>>, 0, 0, FALSE)
    ELSE IF e.kind = "dir" THEN Visited("nil", <<DirNode(<<k>>)>>, 0, 0, FALSE)
    ELSE IF SpecialFile(e) THEN Visited("specialFile", <<>>, 0, 0, FALSE)
    ELSE IF e.kind = "link" /\ ch.fail = "readlink" THEN Visited("readlink", <<>>, 0, 0, FALSE)
    ELSE IF e.kind = "link" /\ e.to \in {"input", "other"} THEN WalkInput(e, k, ch)
    ELSE UploadFile(e, k, off, ch)

\* The walk function on entry e, the k-th below the root, with the block
\* offset at off.
Visit(e, k, off, ch) ==
    IF ch.fail = "stat" THEN Visited("stat", <<>>, 0, 0, FALSE)
    ELSE IF ~e.utf8 THEN Visited("utf8", <<>>, 0, 0, FALSE)
    ELSE IF e.kind = "dir" THEN Visited("nil", <<DirNode(<<k>>)>>, 0, 0, FALSE)
    ELSE IF SpecialFile(e) THEN Visited("specialFile", <<>>, 0, 0, FALSE)
    ELSE IF e.kind = "link" /\ ch.fail = "readlink" THEN Visited("readlink", <<>>, 0, 0, FALSE)
    ELSE IF e.kind = "link" /\ e.to = "input" THEN WalkInput(e, k, ch)
    ELSE UploadFile(e, k, off, ch)

\* The tagged object is written before the PutObjects stream is closed.
UploadSteps_TagFirst == <<"serialize", "putObjectAsync", "write", "closeAndRecv">>

\* UploadOutput: what follows the walk, in order.
UploadSteps == <<"closeAndRecv", "serialize", "putObjectAsync", "write">>

StepIndex(s) == CHOOSE i \in DOMAIN UploadSteps : UploadSteps[i] = s

\* The position after step s succeeded: the next step, or the return.
AfterStep(s) == IF StepIndex(s) = Len(UploadSteps) THEN "defers" ELSE UploadSteps[StepIndex(s) + 1]

\* tree.Serialize(b)
Serialize(t) == <<"serialized", t.nodes>>

NoBuffer == <<"nil", <<>>>>

NoTree == [made |-> FALSE, nodes |-> <<>>]

\* UploadOutput's deferred w.Close(): its error is stored only when retErr
\* is already set.
CloseRetErr(old, closeOk) == IF ~closeOk /\ old # "nil" THEN "close" ELSE old

\* A return statement of UploadOutput: `return nil, err`.
UFail(err) ==
    /\ uret' = [buf |-> NoBuffer, err |-> err]
    /\ upc' = "defers"

\* PutObjects(ctx) and the Send of the block.
U_Open ==
    /\ upc = "start"
    /\ \E f \in {"none", "putObjects", "sendBlock"} :
         IF f = "none"
         THEN /\ stream' = "open"
              /\ upc' = "root"
              /\ UNCHANGED uret
         ELSE /\ stream' = IF f = "sendBlock" THEN "failed" ELSE stream
              /\ UFail(f)
    /\ UNCHANGED <<outRoot, outdir, walkPos, sent, offset, uploadBytes, tree, tagged, uresult, ulog>>
    /\ UNCHANGED <<storeVars, wdVars, runVars, idVars, ctorVars, mockVars, kvVars, unlinkVars, s3Vars, statVars>>

\* filepath.Walk(outputPath, ...): the Lstat of the root and the walk
\* function's visit of the root. Walk descends only into a root that Lstat
\* reports as a directory.
U_WalkRoot ==
    /\ upc = "root"
    /\ \E lstatOk \in BOOLEAN, readDirOk \in BOOLEAN :
         IF ~lstatOk
         THEN /\ UFail("walk")
              /\ ulog' = Append(ulog, [k |-> 0, err |-> "stat", bytes |-> 0, size |-> 0])
              /\ UNCHANGED tree
         ELSE /\ tree' = [made |-> TRUE, nodes |-> <<>>]
              /\ IF outRoot = "dir" /\ ~readDirOk
                 THEN /\ UFail("walk")
                      /\ ulog' = Append(ulog, [k |-> 0, err |-> "readdir", bytes |-> 0, size |-> 0])
                 ELSE /\ upc' = IF outRoot = "dir" THEN "walk" ELSE UploadSteps[1]
                      /\ ulog' = Append(ulog, [k |-> 0, err |-> "nil", bytes |-> 0, size |-> 0])
                      /\ UNCHANGED uret
    /\ UNCHANGED <<outRoot, outdir, walkPos, stream, sent, offset, uploadBytes, tagged, uresult>>
    /\ UNCHANGED <<storeVars, wdVars, runVars, idVars, ctorVars, mockVars, kvVars, unlinkVars, s3Vars, statVars>>

\* The walk function on the next entry below the root.
U_WalkEntry ==
    /\ upc = "walk"
    /\ walkPos <= Len(outdir)
    /\ \E ch \in VisitChoices(outdir[walkPos]) :
         LET v == Visit(outdir[walkPos], walkPos, offset, ch) IN
         /\ tree' = [tree EXCEPT !.nodes = @ \o v.nodes]
         /\ sent' = sent + v.bytes
         /\ offset' = IF v.err = "nil" /\ Uploads(outdir[walkPos]) THEN NextOffset(offset, v.size) ELSE offset
         /\ uploadBytes' = uploadBytes + v.size
         /\ stream' = IF v.err = "send" THEN "failed" ELSE stream
         /\ ulog' = Append(ulog, [k |-> walkPos, err |-> v.err, bytes |-> v.bytes, size |-> v.size])
         /\ IF v.err # "nil"
            THEN UFail("walk")
            ELSE /\ uret' = IF v.closeErr /\ uret.err = "nil" THEN [uret EXCEPT !.err = "fclose"] ELSE uret
                 /\ upc' = upc
    /\ walkPos' = walkPos + 1
    /\ UNCHANGED <<outRoot, outdir, tagged, uresult>>
    /\ UNCHANGED <<storeVars, wdVars, runVars, idVars, ctorVars, mockVars, kvVars, unlinkVars, s3Vars, statVars>>

\* filepath.Walk returns nil.
U_WalkDone ==
    /\ upc = "walk"
    /\ walkPos > Len(outdir)
    /\ upc' = UploadSteps[1]
    /\ UNCHANGED <<outRoot, outdir, walkPos, stream, sent, offset, uploadBytes, tree, tagged, uret, uresult, ulog>>
    /\ UNCHANGED <<storeVars, wdVars, runVars, idVars, ctorVars, mockVars, kvVars, unlinkVars, s3Vars, statVars>>

\* putObjsClient.CloseAndRecv(); io.EOF is accepted.
U_CloseAndRecv ==
    /\ upc = "closeAndRecv"
    /\ \E r \in {"nil", "eof", "err"} :
         /\ stream' = IF r = "err" THEN "failed" ELSE "closed"
         /\ IF r = "err"
            THEN UFail("closeAndRecv")
            ELSE upc' = AfterStep("closeAndRecv") /\ UNCHANGED uret
    /\ UNCHANGED <<outRoot, outdir, walkPos, sent, offset, uploadBytes, tree, tagged, uresult, ulog>>
    /\ UNCHANGED <<storeVars, wdVars, runVars, idVars, ctorVars, mockVars, kvVars, unlinkVars, s3Vars, statVars>>

\* tree.Serialize(b)
U_Serialize ==
    /\ upc = "serialize"
    /\ \E ok \in BOOLEAN :
         IF ok
         THEN upc' = AfterStep("serialize") /\ UNCHANGED uret
         ELSE UFail("serialize")
    /\ UNCHANGED <<outRoot, outdir, walkPos, stream, sent, offset, uploadBytes, tree, tagged, uresult, ulog>>
    /\ UNCHANGED <<storeVars, wdVars, runVars, idVars, ctorVars, mockVars, kvVars, unlinkVars, s3Vars, statVars>>

\* pachClient.PutObjectAsync(tag); on success the writer's Close is deferred.
U_PutObjectAsync ==
    /\ upc = "putObjectAsync"
    /\ \E ok \in BOOLEAN :
         IF ok
         THEN /\ tagged' = "open"
              /\ upc' = AfterStep("putObjectAsync")
              /\ UNCHANGED uret
         ELSE UFail("putObjectAsync") /\ UNCHANGED tagged
    /\ UNCHANGED <<outRoot, outdir, walkPos, stream, sent, offset, uploadBytes, tree, uresult, ulog>>
    /\ UNCHANGED <<storeVars, wdVars, runVars, idVars, ctorVars, mockVars, kvVars, unlinkVars, s3Vars, statVars>>

\* w.Write(b.Bytes()); when it succeeds UploadOutput returns b.Bytes(), nil
U_Write ==
    /\ upc = "write"
    /\ \E ok \in BOOLEAN :
         IF ok
         THEN /\ tagged' = "written"
              /\ upc' = AfterStep("write")
              /\ uret' = IF AfterStep("write") = "defers" THEN [buf |-> Serialize(tree), err |-> "nil"] ELSE uret
         ELSE /\ tagged' = "broken"
              /\ UFail("write")
    /\ UNCHANGED <<outRoot, outdir, walkPos, stream, sent, offset, uploadBytes, tree, uresult, ulog>>
    /\ UNCHANGED <<storeVars, wdVars, runVars, idVars, ctorVars, mockVars, kvVars, unlinkVars, s3Vars, statVars>>

\* The writer PutObjectAsync returns: Close commits the tagged object or
\* fails; a writer whose Write failed cannot be closed successfully.
CloseOutcomes(t) == IF t = "broken" THEN {FALSE} ELSE BOOLEAN

\* The deferred w.Close().
U_DeferClose ==
    /\ upc = "defers"
    /\ tagged \in {"open", "written", "broken"}
    /\ \E ok \in CloseOutcomes(tagged) :
         /\ tagged' = IF ok THEN "committed" ELSE "closeFailed"
         /\ uret' = [uret EXCEPT !.err = CloseRetErr(uret.err, ok)]
    /\ UNCHANGED <<outRoot, outdir, upc, walkPos, stream, sent, offset, uploadBytes, tree, uresult, ulog>>
    /\ UNCHANGED <<storeVars, wdVars, runVars, idVars, ctorVars, mockVars, kvVars, unlinkVars, s3Vars, statVars>>

\* UploadOutput returns retBuffer and retErr once every deferred function
\* has run, the last of them being ReportUploadStats.
U_Return ==
    /\ upc = "defers"
    /\ tagged \notin {"open", "written", "broken"}
    /\ upc' = "returned"
    /\ uresult' = uret
    /\ metrics' = ReportUploadStats(metrics)
    /\ UNCHANGED <<outRoot, outdir, walkPos, stream, sent, offset, uploadBytes, tree, tagged, uret, ulog>>
    /\ UNCHANGED <<probe, exportStats, storeVars, wdVars, runVars, idVars, ctorVars, mockVars, kvVars, unlinkVars, s3Vars>>

\* No UploadOutput invocation: the state of the specifications about other
\* operations.
IdleUpload ==
    /\ outRoot = "symlink"
    /\ outdir = <<>>
    /\ upc = "idle"
    /\ walkPos = 1
    /\ stream = "none"
    /\ sent = 0
    /\ offset = 0
    /\ uploadBytes = 0
    /\ tree = NoTree
    /\ tagged = "none"
    /\ uret = [buf |-> NoBuffer, err |-> "nil"]
    /\ uresult = [buf |-> NoBuffer, err |-> "pending"]
    /\ ulog = <<>>

---------------------------------------------------------------------------
(* RunUserCode and RunUserErrorHandlingCode *)

ExitCodes == 0..MaxExitCode

NoChild == [st |-> "none", code |-> 0, sig |-> ""]

Running == [st |-> "running", code |-> 0, sig |-> ""]

Exited(c) == [st |-> "exited", code |-> c, sig |-> ""]

\* A child ended by a signal; WaitStatus.ExitStatus() is then -1.
Signaled(g) == [st |-> "signaled", code |-> -1, sig |-> g]

NilErr == [kind |-> "nil", status |-> 0, brokenPipe |-> FALSE]

\* RunUserCode: ctx gets a deadline when rawDatumTimeout is given.
RunUserCodeDeadline(t) == t = "valid"

\* RunUserErrorHandlingCode: ctx is the driver's context, whatever
\* rawDatumTimeout is.
RunUserErrorHandlingCodeDeadline(t) == FALSE

HasDeadline == IF mode = "user" THEN RunUserCodeDeadline(rtimeout) ELSE RunUserErrorHandlingCodeDeadline(rtimeout)

\* The command array is used without a look at its length.
BeforeStart_NoEmptyCheck ==
    IF mode = "user" /\ rtimeout = "invalid" THEN "badTimeout" ELSE "start"

\* What happens before cmd.Start: "start", or the value returned at once.
\* RunUserCode rejects a bad timeout and an empty command;
\* RunUserErrorHandlingCode indexes ErrCmd[0] unchecked.
BeforeStart ==
    IF mode = "user"
    THEN IF rtimeout = "invalid" THEN "badTimeout"
         ELSE IF cmdEmpty THEN "noCommand" ELSE "start"
    ELSE IF cmdEmpty THEN "panic" ELSE "start"

\* The wait on the process followed by no look at the context.
AfterWait_NoCtxCheck(waitOk, cerr) == IF ~waitOk THEN "waitErr" ELSE "waitIO"

\* After cmd.Process.Wait(): its error is returned first; then, when the
\* context is done, the context's error.
AfterWait(waitOk, cerr) ==
    IF ~waitOk THEN "waitErr"
    ELSE IF cerr # "none" THEN cerr
    ELSE "waitIO"

\* cmd.WaitIO(state, err): an ExitError when the child did not exit with 0
\* ("exit status N", "signal: broken pipe", ...), otherwise the first error of
\* the I/O copying.
WaitIO(ch, cp) ==
    IF ch.st = "signaled" THEN [kind |-> "exit", status |-> -1, brokenPipe |-> ch.sig = "pipe"]
    ELSE IF ch.code # 0 THEN [kind |-> "exit", status |-> ch.code, brokenPipe |-> FALSE]
    ELSE IF cp = "nil" THEN NilErr
    ELSE [kind |-> "copy", status |-> 0, brokenPipe |-> cp = "brokenPipe"]

\* The exit status is never looked up in AcceptReturnCode.
ExitResult_NoAccept(err, acc) == IF err.kind # "nil" /\ ~err.brokenPipe THEN "waitIOErr" ELSE "nil"

\* The value returned after WaitIO: broken pipe errors are ignored, an
\* ExitError whose status is in AcceptReturnCode is accepted, any other error
\* is returned.
ExitResult(err, acc) ==
    IF err.kind # "nil" /\ ~err.brokenPipe
    THEN IF err.kind = "exit" /\ err.status \in acc THEN "nil" ELSE "waitIOErr"
    ELSE "nil"

\* RunUserCode reports the datum as started on entry;
\* RunUserErrorHandlingCode reports nothing.
EntryStats(m) == IF mode = "user" THEN ReportUserCodeStats(m) ELSE m

\* The deferred report is registered after the checks of the timeout and of
\* the command: the returns before them report nothing.
ReturnStats_AfterChecks(m, returns, res) ==
    IF mode = "user" /\ returns /\ res \notin {"badTimeout", "noCommand"}
    THEN ReportDeferredUserCodeStats(m, res = "nil") ELSE m

\* RunUserCode's deferred report, run when it returns res.
ReturnStats(m, returns, res) ==
    IF mode = "user" /\ returns THEN ReportDeferredUserCodeStats(m, res = "nil") ELSE m

\* A failed cmd.Start() is not checked: the function goes on to wait.
AfterStart_Wait(ok) == "started"

\* The check of cmd.Start()'s error: a failure returns at once.
AfterStart(ok) == IF ok THEN "started" ELSE "returned"

\* The function up to and including cmd.Start().
R_Start ==
    /\ rpc = "created"
    /\ IF BeforeStart # "start"
       THEN /\ result' = BeforeStart
            /\ rpc' = "returned"
            /\ child' = child
            /\ metrics' = ReturnStats(EntryStats(metrics), TRUE, BeforeStart)
       ELSE \E ok \in BOOLEAN :
            /\ result' = IF ok THEN result ELSE "startErr"
            /\ rpc' = AfterStart(ok)
            /\ child' = IF ok THEN Running ELSE child
            /\ metrics' = ReturnStats(EntryStats(metrics), ~ok, "startErr")
    /\ UNCHANGED <<invocations, mode, cmdEmpty, rtimeout, accept, ctxErr, elapsed, copyErr, ioClosed, ctxFiredRunning, elapsedRunning>>
    /\ UNCHANGED <<probe, exportStats, storeVars, wdVars, upVars, idVars, ctorVars, mockVars, kvVars, unlinkVars, s3Vars>>

\* The driver's context is cancelled.
Env_Cancel ==
    /\ rpc \in {"created", "started", "terminated"}
    /\ ctxErr = "none"
    /\ ctxErr' = "canceled"
    /\ ctxFiredRunning' = (ctxFiredRunning \/ child.st = "running")
    /\ UNCHANGED <<invocations, mode, cmdEmpty, rtimeout, accept, rpc, elapsed, child, copyErr, ioClosed, result, elapsedRunning>>
    /\ UNCHANGED <<storeVars, wdVars, upVars, idVars, ctorVars, mockVars, kvVars, unlinkVars, s3Vars, statVars>>

\* The duration of rawDatumTimeout passes; a context with that deadline
\* becomes done.
Env_Timeout ==
    /\ rpc \in {"started", "terminated"}
    /\ rtimeout = "valid"
    /\ ~elapsed
    /\ elapsed' = TRUE
    /\ elapsedRunning' = (child.st = "running")
    /\ IF HasDeadline /\ ctxErr = "none"
       THEN /\ ctxErr' = "deadline"
            /\ ctxFiredRunning' = (ctxFiredRunning \/ child.st = "running")
       ELSE UNCHANGED <<ctxErr, ctxFiredRunning>>
    /\ UNCHANGED <<invocations, mode, cmdEmpty, rtimeout, accept, rpc, child, copyErr, ioClosed, result>>
    /\ UNCHANGED <<storeVars, wdVars, upVars, idVars, ctorVars, mockVars, kvVars, unlinkVars, s3Vars, statVars>>

\* exec.CommandContext: the child is killed once ctx is done.
Env_Kill ==
    /\ child.st = "running"
    /\ ctxErr # "none"
    /\ child' = Signaled("killed")
    /\ UNCHANGED <<invocations, mode, cmdEmpty, rtimeout, accept, rpc, ctxErr, elapsed, copyErr, ioClosed, result, ctxFiredRunning, elapsedRunning>>
    /\ UNCHANGED <<storeVars, wdVars, upVars, idVars, ctorVars, mockVars, kvVars, unlinkVars, s3Vars, statVars>>

\* The child ends on its own: it exits with a code, or dies of SIGPIPE.
Env_ChildExit ==
    /\ child.st = "running"
    /\ \/ \E c \in ExitCodes : child' = Exited(c)
       \/ child' = Signaled("pipe")
    /\ UNCHANGED <<invocations, mode, cmdEmpty, rtimeout, accept, rpc, ctxErr, elapsed, copyErr, ioClosed, result, ctxFiredRunning, elapsedRunning>>
    /\ UNCHANGED <<storeVars, wdVars, upVars, idVars, ctorVars, mockVars, kvVars, unlinkVars, s3Vars, statVars>>

\* cmd.Process.Wait() returns, and the context is looked at.
R_Wait ==
    /\ rpc = "started"
    /\ \E waitOk \in BOOLEAN :
         /\ waitOk => child.st \in {"exited", "signaled"}
         /\ LET a == AfterWait(waitOk, ctxErr) IN
            /\ rpc' = IF a = "waitIO" THEN "terminated" ELSE "returned"
            /\ result' = IF a = "waitIO" THEN result ELSE a
            /\ metrics' = ReturnStats(metrics, a # "waitIO", a)
    /\ UNCHANGED <<invocations, mode, cmdEmpty, rtimeout, accept, ctxErr, elapsed, child, copyErr, ioClosed, ctxFiredRunning, elapsedRunning>>
    /\ UNCHANGED <<probe, exportStats, storeVars, wdVars, upVars, idVars, ctorVars, mockVars, kvVars, unlinkVars, s3Vars>>

\* cmd.WaitIO(state, err) and the decision on its error.
R_WaitIO ==
    /\ rpc = "terminated"
    /\ \E cp \in {"nil", "brokenPipe", "other"} :
         /\ copyErr' = cp
         /\ result' = ExitResult(WaitIO(child, cp), accept)
         /\ metrics' = ReturnStats(metrics, TRUE, ExitResult(WaitIO(child, cp), accept))
    /\ ioClosed' = TRUE
    /\ rpc' = "returned"
    /\ UNCHANGED <<invocations, mode, cmdEmpty, rtimeout, accept, ctxErr, elapsed, child, ctxFiredRunning, elapsedRunning>>
    /\ UNCHANGED <<probe, exportStats, storeVars, wdVars, upVars, idVars, ctorVars, mockVars, kvVars, unlinkVars, s3Vars>>

\* The caller invokes RunUserCode or RunUserErrorHandlingCode again, for the
\* next datum, once the last invocation has returned.  The driver's context
\* stays cancelled once it is; the deadline belongs to one invocation.
R_Again ==
    /\ rpc = "returned"
    /\ result # "panic"
    /\ invocations < MaxRuns
    /\ invocations' = invocations + 1
    /\ mode' \in {"user", "errcmd"}
    /\ rtimeout' \in {"nil", "valid", "invalid"}
    /\ rpc' = "created"
    /\ ctxErr' = IF ctxErr = "canceled" THEN "canceled" ELSE "none"
    /\ elapsed' = FALSE
    /\ child' = NoChild
    /\ copyErr' = "nil"
    /\ ioClosed' = FALSE
    /\ result' = "pending"
    /\ ctxFiredRunning' = FALSE
    /\ elapsedRunning' = FALSE
    /\ UNCHANGED <<cmdEmpty, accept>>
    /\ UNCHANGED <<storeVars, wdVars, upVars, idVars, ctorVars, mockVars, kvVars, unlinkVars, s3Vars, statVars>>

\* No invocation: the state of the specifications about other operations.
IdleRun ==
    /\ mode = "user"
    /\ cmdEmpty = FALSE
    /\ rtimeout = "nil"
    /\ accept = {}
    /\ rpc = "idle"
    /\ ctxErr = "none"
    /\ elapsed = FALSE
    /\ child = NoChild
    /\ copyErr = "nil"
    /\ ioClosed = FALSE
    /\ result = "pending"
    /\ ctxFiredRunning = FALSE
    /\ elapsedRunning = FALSE
    /\ invocations = 0

InitRun ==
    /\ mode \in {"user", "errcmd"}
    /\ cmdEmpty \in BOOLEAN
    /\ rtimeout \in {"nil", "valid", "invalid"}
    /\ accept \in SUBSET ExitCodes
    /\ rpc = "created"
    /\ ctxErr = "none"
    /\ elapsed = FALSE
    /\ child = NoChild
    /\ copyErr = "nil"
    /\ ioClosed = FALSE
    /\ result = "pending"
    /\ ctxFiredRunning = FALSE
    /\ elapsedRunning = FALSE
    /\ invocations = 1
    /\ IdleStore
    /\ IdleWithData
    /\ IdleMock
    /\ IdleKeys
    /\ IdleUnlink
    /\ IdleS3
    /\ IdleUpload
    /\ InitStats

NextRun ==
    \/ R_Start
    \/ Env_Cancel
    \/ Env_Timeout
    \/ Env_Kill
    \/ Env_ChildExit
    \/ R_Wait
    \/ R_WaitIO

SpecRun == InitRun /\ [][NextRun]_vars

\* One invocation after the other on the same driver.
NextRuns == NextRun \/ R_Again

SpecRuns == InitRun /\ [][NextRuns]_vars

\* WithData is called with any mix of pfs and git inputs, on a spout or not,
\* with inputDir holding at most an entry left by someone else.
InitWithData ==
    /\ custom \in BOOLEAN
    /\ owner = [e \in Ents |-> "worker"]
    /\ IdleNewDriver
    /\ IdleMock
    /\ IdleKeys
    /\ IdleUnlink
    /\ IdleS3
    /\ InitStats
    /\ data \in [Inputs -> {"pfs", "git"}]
    /\ spout \in BOOLEAN
    /\ wpc = "start"
    /\ scratch = FALSE
    /\ dir = ""
    /\ derr = NoErr
    /\ wstats = NoDrain
    /\ staging = [i \in Inputs |-> NoRun]
    /\ staged = 0
    /\ inputDir \in {{}, {Stray}}
    /\ defers = <<>>
    /\ retErr = "nil"
    /\ wlog = <<>>
    /\ IdleStore
    /\ IdleRun
    /\ IdleUpload

NextWithData ==
    \/ WD_Download
    \/ WD_MkdirInputDir
    \/ WD_Link
    \/ WD_Callback
    \/ WD_Drain
    \/ WD_DeferUnlink
    \/ WD_DeferCleanUp
    \/ WD_DeferRemoveAll
    \/ WD_Return

SpecWithData == InitWithData /\ [][NextWithData]_vars

\* UploadOutput is called on an output directory of at most MaxEntries
\* entries; <inputDir>/out is the link linkData made, or a directory.
InitUpload ==
    /\ outRoot \in {"dir", "symlink"}
    /\ outdir \in UNION {[1..n -> Entries] : n \in 0..MaxEntries}
    /\ upc = "start"
    /\ walkPos = 1
    /\ stream = "none"
    /\ sent = 0
    /\ offset = 0
    /\ uploadBytes = 0
    /\ tree = NoTree
    /\ tagged = "none"
    /\ uret = [buf |-> NoBuffer, err |-> "nil"]
    /\ uresult = [buf |-> NoBuffer, err |-> "pending"]
    /\ ulog = <<>>
    /\ IdleStore
    /\ IdleWithData
    /\ IdleMock
    /\ IdleKeys
    /\ IdleUnlink
    /\ IdleS3
    /\ IdleRun
    /\ InitStats

NextUpload ==
    \/ U_Open
    \/ U_WalkRoot
    \/ U_WalkEntry
    \/ U_WalkDone
    \/ U_CloseAndRecv
    \/ U_Serialize
    \/ U_PutObjectAsync
    \/ U_Write
    \/ U_DeferClose
    \/ U_Return

SpecUpload == InitUpload /\ [][NextUpload]_vars

---------------------------------------------------------------------------
(* One datum: WithData whose callback runs the user code and uploads *)

\* The callback WithData invokes starts by calling RunUserCode.
D_RunUserCode ==
    /\ wpc = "callback"
    /\ rpc = "idle"
    /\ rpc' = "created"
    /\ wlog' = Append(wlog, "callback")
    /\ UNCHANGED <<data, spout, wpc, scratch, dir, derr, staging, wstats, staged, inputDir, defers, retErr>>
    /\ UNCHANGED <<invocations, mode, cmdEmpty, rtimeout, accept, ctxErr, elapsed, child, copyErr, ioClosed, result, ctxFiredRunning, elapsedRunning>>
    /\ UNCHANGED <<storeVars, upVars, idVars, ctorVars, mockVars, kvVars, unlinkVars, s3Vars, statVars>>

\* After user code that returned nil, the callback calls UploadOutput.
D_UploadOutput ==
    /\ wpc = "callback"
    /\ rpc = "returned" /\ result = "nil"
    /\ upc = "idle"
    /\ upc' = "start"
    /\ UNCHANGED <<outRoot, outdir, walkPos, stream, sent, offset, uploadBytes, tree, tagged, uret, uresult, ulog>>
    /\ UNCHANGED <<storeVars, wdVars, runVars, idVars, ctorVars, mockVars, kvVars, unlinkVars, s3Vars, statVars>>

\* The callback returns the error of the call that failed, or nil.
D_CallbackReturn ==
    /\ wpc = "callback"
    /\ \/ rpc = "returned" /\ result # "nil"
       \/ upc = "returned"
    /\ LET ok == upc = "returned" /\ uresult.err = "nil" IN
       /\ wpc' = IF ok THEN "drain" ELSE "defers"
       /\ retErr' = IF ok THEN retErr ELSE "callback"
    /\ UNCHANGED <<data, spout, scratch, dir, derr, staging, wstats, staged, inputDir, defers, wlog>>
    /\ UNCHANGED <<storeVars, runVars, upVars, idVars, ctorVars, mockVars, kvVars, unlinkVars, s3Vars, statVars>>

\* A caller invokes the driver's ReportUploadStats itself, once the datum is
\* done.
D_ReportUploadStats ==
    /\ wpc = "returned"
    /\ upc \in {"idle", "returned"}
    /\ upc' = "reported"
    /\ metrics' = ReportUploadStats(metrics)
    /\ UNCHANGED <<outRoot, outdir, walkPos, stream, sent, offset, uploadBytes, tree, tagged, uret, uresult, ulog>>
    /\ UNCHANGED <<probe, exportStats, storeVars, wdVars, runVars, idVars, ctorVars, mockVars, kvVars, unlinkVars, s3Vars>>

\* NewDriver is called with any user argument, on any passwd and group files
\* of at most MaxLines lines, present or missing.
InitNewDriver ==
    /\ userArg \in {UserArg(u, g) : u \in {"", "app", "7"}, g \in {"", "ops", "8"}}
    /\ passwd \in {Missing} \cup {File(ls) : ls \in UNION {[1..n -> PasswdLines] : n \in 0..MaxLines}}
    /\ groupFile \in {Missing} \cup {File(ls) : ls \in UNION {[1..n -> GroupLines] : n \in 0..MaxLines}}
    /\ npc = "new"
    /\ uid = "unset"
    /\ gid = "unset"
    /\ nerr = "nil"
    /\ IdleMock
    /\ IdleKeys
    /\ IdleUnlink
    /\ IdleS3
    /\ custom = FALSE
    /\ owner = [e \in Ents |-> "worker"]
    /\ probe \in {"active", "error"}
    /\ exportStats = FALSE
    /\ metrics = NoMetrics
    /\ IdleStore
    /\ data = [i \in Inputs |-> "pfs"]
    /\ spout = FALSE
    /\ wpc = "idle"
    /\ scratch = FALSE
    /\ dir = ""
    /\ derr = NoErr
    /\ wstats = NoDrain
    /\ staging = [i \in Inputs |-> NoRun]
    /\ staged = 0
    /\ inputDir = {}
    /\ defers = <<>>
    /\ retErr = "nil"
    /\ wlog = <<>>
    /\ IdleRun
    /\ IdleUpload

NextNewDriver ==
    \/ ND_User
    \/ ND_Probe

SpecNewDriver == InitNewDriver /\ [][NextNewDriver]_vars

\* A driver built with any probe answer processes one datum of PFS inputs:
\* RunUserCode with or without a timeout, on an output directory of at most
\* one regular file.
InitDatum ==
    /\ InitStats
    /\ IdleStore
    /\ custom = FALSE
    /\ owner = [e \in Ents |-> "worker"]
    /\ IdleNewDriver
    /\ IdleMock
    /\ IdleKeys
    /\ IdleUnlink
    /\ IdleS3
    /\ data = [i \in Inputs |-> "pfs"]
    /\ spout = FALSE
    /\ wpc = "start"
    /\ scratch = FALSE
    /\ dir = ""
    /\ derr = NoErr
    /\ wstats = NoDrain
    /\ staging = [i \in Inputs |-> NoRun]
    /\ staged = 0
    /\ inputDir = {}
    /\ defers = <<>>
    /\ retErr = "nil"
    /\ wlog = <<>>
    /\ mode = "user"
    /\ cmdEmpty = FALSE
    /\ rtimeout \in {"nil", "valid"}
    /\ accept = {}
    /\ rpc = "idle"
    /\ ctxErr = "none"
    /\ elapsed = FALSE
    /\ child = NoChild
    /\ copyErr = "nil"
    /\ ioClosed = FALSE
    /\ result = "pending"
    /\ ctxFiredRunning = FALSE
    /\ elapsedRunning = FALSE
    /\ invocations = 1
    /\ outRoot \in {"dir", "symlink"}
    /\ outdir \in UNION {[1..n -> {e \in Entries : e.kind = "file" /\ e.utf8}] : n \in 0..1}
    /\ upc = "idle"
    /\ walkPos = 1
    /\ stream = "none"
    /\ sent = 0
    /\ offset = 0
    /\ uploadBytes = 0
    /\ tree = NoTree
    /\ tagged = "none"
    /\ uret = [buf |-> NoBuffer, err |-> "nil"]
    /\ uresult = [buf |-> NoBuffer, err |-> "pending"]
    /\ ulog = <<>>

NextDatum ==
    \/ WD_Download
    \/ WD_MkdirInputDir
    \/ WD_Link
    \/ D_RunUserCode
    \/ R_Start
    \/ Env_Cancel
    \/ Env_Timeout
    \/ Env_Kill
    \/ Env_ChildExit
    \/ R_Wait
    \/ R_WaitIO
    \/ D_UploadOutput
    \/ U_Open
    \/ U_WalkRoot
    \/ U_WalkEntry
    \/ U_WalkDone
    \/ U_CloseAndRecv
    \/ U_Serialize
    \/ U_PutObjectAsync
    \/ U_Write
    \/ U_DeferClose
    \/ U_Return
    \/ D_CallbackReturn
    \/ WD_Drain
    \/ WD_DeferUnlink
    \/ WD_DeferCleanUp
    \/ WD_DeferRemoveAll
    \/ WD_Return
    \/ D_ReportUploadStats

SpecDatum == InitDatum /\ [][NextDatum]_vars

\* C19: a driver whose activation probe did not answer ACTIVE (it answered
\* something else, answered nothing usable, or failed) leaves every counter
\* and histogram untouched, whatever WithData, RunUserCode, UploadOutput and
\* ReportUploadStats calls are made on it.
C19_NoStatsUnlessActive == probe # "active" => metrics = NoMetrics

\* A driver whose probe failed has run a whole datum and a separate
\* ReportUploadStats call.
C19_Witness ==
    /\ probe = "error"
    /\ wpc = "returned" /\ retErr = "nil"
    /\ rpc = "returned" /\ result = "nil"
    /\ uresult.err = "nil"
    /\ upc = "reported"

\* The vectors section 4.8 of the specification lists.
Vectors == {x.metric : x \in AllSeries}

RECURSIVE SumOver(_, _)
SumOver(m, xs) ==
    IF xs = {} THEN 0
    ELSE LET x == CHOOSE y \in xs : TRUE IN m[x] + SumOver(m, xs \ {x})

\* The number of updates a vector received, over all its label values.
VectorUpdates(m, v) == SumOver(m, {x \in AllSeries : x.metric = v})

\* Stats are exported and one datum is over: staging succeeded, RunUserCode
\* returned nil, UploadOutput succeeded, WithData returned, and no other stats
\* call was made.
SuccessfulDatum ==
    /\ exportStats
    /\ wpc = "returned"
    /\ rpc = "returned" /\ result = "nil"
    /\ upc = "returned" /\ uresult.err = "nil"

\* The series one datum updates when everything up to WithData's final
\* puller.CleanUp succeeded (drained), and when that CleanUp failed.
DatumSeries(drained) ==
    {Series("DatumCount", "started"), Series("DatumCount", "finished"), Series("DatumProcTime", "finished")}
    \cup {Series(v, "") : v \in {"DatumProcSecondsCount", "DatumUploadTime", "DatumUploadSecondsCount",
                                 "DatumUploadSize", "DatumUploadBytesCount", "DatumDownloadTime",
                                 "DatumDownloadSecondsCount"}}
    \cup (IF drained THEN {Series("DatumDownloadSize", ""), Series("DatumDownloadBytesCount", "")} ELSE {})

\* C20 as stated: with stats exported, one successful datum updates each of the
\* listed counters and histograms exactly once.
C20_EachVectorOnce ==
    SuccessfulDatum => \A v \in Vectors : VectorUpdates(metrics, v) = 1

\* C20: with stats exported, one successful datum increments the datum count
\* once as "started" and once as "finished", observes the process time once as
\* "finished", and updates the process seconds, the upload time, seconds, size
\* and bytes and the download time and seconds exactly once each; it updates
\* the download size and bytes exactly once when WithData's final
\* puller.CleanUp succeeded and not at all when it failed; nothing is recorded
\* as "errored".
C20_EachSeriesOnce ==
    SuccessfulDatum =>
        metrics = [x \in AllSeries |-> IF x \in DatumSeries(retErr # "drain") THEN 1 ELSE 0]

\* A successful datum whose WithData returned nil, on a driver that exports
\* stats.
C20_Witness == SuccessfulDatum /\ retErr = "nil" /\ Len(outdir) = 1 /\ outRoot = "dir"


InitJobs ==
    \E pf \in [JobIDs -> PipelineNames], sf \in [JobIDs -> StartStates] :
        jobs = [j \in JobIDs |-> JobEntry(pf[j], sf[j], "")]

\* A store whose counters are in step with its job entries.
InitStore ==
    /\ InitJobs
    /\ InitCalls
    /\ pipelines = [p \in PipelineNames |-> Counts([s \in JobStates |-> JobsIn(jobs, p, s)])]
    /\ IdleWithData
    /\ IdleMock
    /\ IdleKeys
    /\ IdleUnlink
    /\ IdleS3
    /\ IdleRun
    /\ IdleUpload
    /\ IdleStats

NextStore ==
    \E c \in Calls : UpdateJobState(c) \/ DeleteJob(c) \/ Commit(c) \/ Retry(c)

SpecStore == InitStore /\ [][NextStore]_vars

\* A store whose counters need not be in step: a nil map, or every counter k.
InitDelete ==
    /\ InitJobs
    /\ InitCalls
    /\ pipelines \in [PipelineNames -> {NilCounts} \cup {Counts([s \in JobStates |-> k]) : k \in 0..MaxCount}]
    /\ IdleWithData
    /\ IdleMock
    /\ IdleKeys
    /\ IdleUnlink
    /\ IdleS3
    /\ IdleRun
    /\ IdleUpload
    /\ IdleStats

NextDelete ==
    \E c \in Calls : DeleteJob(c) \/ Commit(c) \/ Retry(c)

SpecDelete == InitDelete /\ [][NextDelete]_vars

\* The driver and the MockDriver on two stores that start out the same, with
\* counters in step with the job entries.
InitMock ==
    /\ InitJobs
    /\ InitCalls
    /\ pipelines = [p \in PipelineNames |-> Counts([s \in JobStates |-> JobsIn(jobs, p, s)])]
    /\ mjobs = jobs
    /\ mpipelines = pipelines
    /\ mconf \in 0..MaxWorkers
    /\ mopts = NewMockDriver(mconf)
    /\ mcall = NoMockCall
    /\ mseq = <<>>
    /\ IdleWithData
    /\ IdleKeys
    /\ IdleUnlink
    /\ IdleS3
    /\ IdleRun
    /\ IdleUpload
    /\ IdleStats

NextMock ==
    \/ Both_UpdateJobState
    \/ Both_DeleteJob
    \/ M_WithData
    \/ M_RunUserCode
    \/ M_RunUserErrorHandlingCode
    \/ M_ReportUploadStats
    \/ M_GetExpectedNumWorkers

SpecMock == InitMock /\ [][NextMock]_vars

\* Drivers and MockDrivers of the pipelines, sharing one etcd prefix.
InitKeys ==
    /\ IdleKeys
    /\ IdleUnlink
    /\ IdleS3
    /\ IdleStore
    /\ IdleMock
    /\ IdleWithData
    /\ IdleRun
    /\ IdleUpload
    /\ IdleStats

NextKeys == K_Put \/ K_DeleteAll

SpecKeys == InitKeys /\ [][NextKeys]_vars

\* unlinkData on an inputDir holding any of the marker, the links of the
\* inputs, out and an entry nobody linked.
InitUnlink ==
    /\ \E es \in SUBSET ({ScratchSpace, LinkOut, Stray} \cup Inputs), b \in SUBSET {"this", "other"} :
         /\ b # {} => ScratchSpace \in es
         /\ idir = Dir(es, b)
    /\ ucall = UnlinkCall("", {}, Dir({}, {}), 0, "nil")
    /\ IdleS3
    /\ IdleStore
    /\ IdleWithData
    /\ IdleMock
    /\ IdleKeys
    /\ IdleRun
    /\ IdleUpload
    /\ IdleStats

NextUnlink == UL_UnlinkData \/ UL_Refill

SpecUnlink == InitUnlink /\ [][NextUnlink]_vars

\* PUT object requests on a branch whose file is absent or holds any body.
InitS3 ==
    /\ branchFile \in {NoFile} \cup Bodies
    /\ s3call = NoS3Call
    /\ IdleStore
    /\ IdleWithData
    /\ IdleMock
    /\ IdleKeys
    /\ IdleUnlink
    /\ IdleRun
    /\ IdleUpload
    /\ IdleStats

NextS3 == S3_Put

SpecS3 == InitS3 /\ [][NextS3]_vars

---------------------------------------------------------------------------
(* Properties of the coordination store *)

\* The committed calls on job j, and the one that committed last.
CommittedOn(j) == {i \in DOMAIN commits : call[commits[i]].job = j}

LastOn(j) == commits[CHOOSE i \in CommittedOn(j) : \A k \in CommittedOn(j) : k <= i]

\* JobCounts was nil, or held 0 for the job's state, when call c read it.
ReadZero(c) == call[c].readPl.isNil \/ call[c].readPl.n[call[c].readJob.state] = 0

\* C2: starting from a store whose JobCounts agree with its job entries, every
\* committed store state reached by UpdateJobState and DeleteJob transactions,
\* in any interleaving, has p.JobCounts[s] equal to the number of job entries of
\* p in state s, for every pipeline p and state s.
C2_CountsMatchJobs ==
    \A p \in PipelineNames : \A s \in JobStates :
        pipelines[p].n[s] = Cardinality({j \in JobIDs : jobs[j].present /\ jobs[j].pipeline = p /\ jobs[j].state = s})

\* An UpdateJobState and a DeleteJob have both committed.
C2_Witness ==
    \E c, d \in Calls :
        /\ call[c].op = "update" /\ call[c].result = "committed"
        /\ call[d].op = "delete" /\ call[d].result = "committed"

\* C3: two UpdateJobState calls on the same job j that have both returned
\* (j not having been deleted) have both committed; j then carries the state
\* and reason of the call on j that committed last, and the owning pipeline
\* counts j exactly once, under that state.
C3_ConcurrentUpdates ==
    \A c, d \in Calls :
        ( /\ c # d
          /\ call[c].op = "update" /\ call[d].op = "update"
          /\ call[c].job = call[d].job
          /\ call[c].pc = "done" /\ call[d].pc = "done"
          /\ \A i \in CommittedOn(call[c].job) : call[commits[i]].op = "update" )
        => LET j == call[c].job
               w == LastOn(j)
               p == jobs[j].pipeline
           IN /\ call[c].result = "committed" /\ call[d].result = "committed"
              /\ jobs[j].present
              /\ jobs[j].state = call[w].state /\ jobs[j].reason = call[w].reason
              /\ \A s \in JobStates : pipelines[p].n[s] = JobsIn(jobs, p, s)

\* Two calls updated the same job concurrently: both committed, and one had
\* to run its callback again after a commit conflict.
C3_Witness ==
    \E c, d \in Calls :
        /\ c # d
        /\ call[c].op = "update" /\ call[d].op = "update"
        /\ call[c].job = call[d].job
        /\ call[c].state # call[d].state
        /\ call[c].result = "committed" /\ call[d].result = "committed"
        /\ call[d].attempts >= 2

\* C4: a committing DeleteJob lowers the JobCounts entry of the job's state by
\* one when it is positive and leaves it 0 when it is 0 or the map is nil,
\* changes no other counter of any pipeline, and deletes the job entry; no
\* JobCounts value is ever negative.
C4_DeleteJobStep ==
    \A c \in Calls :
        (call[c].op = "delete" /\ call[c].pc = "read" /\ call'[c].pc = "done" /\ call'[c].result = "committed")
        => LET j == call[c].job
               p == jobs[j].pipeline
               st == jobs[j].state
               old == IF pipelines[p].isNil THEN 0 ELSE pipelines[p].n[st]
           IN /\ pipelines'[p].n[st] = IF old > 0 THEN old - 1 ELSE 0
              /\ \A s \in JobStates \ {st} : pipelines'[p].n[s] = pipelines[p].n[s]
              /\ \A q \in PipelineNames \ {p} : pipelines'[q] = pipelines[q]
              /\ ~jobs'[j].present
              /\ \A i \in JobIDs \ {j} : jobs'[i] = jobs[i]

C4_DeleteJob ==
    /\ [](\A p \in PipelineNames : \A s \in JobStates : pipelines[p].n[s] >= 0)
    /\ [][C4_DeleteJobStep]_vars

\* Two DeleteJob calls have committed: one found a positive counter, the
\* other a counter of 0 or a nil map.
C4_Witness ==
    \E c, d \in Calls :
        /\ call[c].op = "delete" /\ call[c].result = "committed" /\ ~ReadZero(c)
        /\ call[d].op = "delete" /\ call[d].result = "committed" /\ ReadZero(d)

---------------------------------------------------------------------------
(* Properties of WithData *)

Events(es) == {i \in DOMAIN wlog : wlog[i] \in es}

CleanUpEvents == Events({"cleanUp", "cleanUpFailed"})

RemoveAllEvents == Events({"removeAll", "removeAllFailed"})

UnlinkEvents == Events({"unlinkData", "unlinkDataFailed"})

DatumLinks == Inputs \cup {LinkOut}

\* C1: when WithData returns, the scratch directory this invocation created
\* does not exist (stated for the invocations whose os.RemoveAll call did not
\* itself fail).
C1_ScratchRemoved ==
    (wpc = "returned" /\ Events({"removeAllFailed"}) = {}) => ~scratch

\* C5: when WithData returns, no input link and no out link of this datum
\* remains in inputDir (stated for the invocations whose unlinkData call did
\* not itself fail).
C5_InputDirClean ==
    (wpc = "returned" /\ Events({"unlinkDataFailed"}) = {}) => inputDir \cap DatumLinks = {}

\* C6: the callback is invoked at most once, only after every input was staged
\* and the inputs and out were linked, never after staging or linking failed;
\* unlink, puller cleanup and scratch removal all happen after the callback and
\* before WithData returns.
C6_CallbackOrdering ==
    /\ Cardinality(Events({"callback"})) <= 1
    /\ wpc = "callback" => (staged = NumInputs /\ DatumLinks \subseteq inputDir)
    /\ \A i \in Events({"callback"}) :
         /\ \E a \in 1..(i - 1) : wlog[a] = "staged"
         /\ \E b \in 1..(i - 1) : wlog[b] = "linked"
         /\ Events({"stageFailed", "linkFailed"}) = {}
         /\ \A k \in CleanUpEvents \cup RemoveAllEvents \cup UnlinkEvents : k > i
         /\ wpc = "returned" =>
              /\ CleanUpEvents # {} /\ RemoveAllEvents # {} /\ UnlinkEvents # {}
              /\ \A k \in CleanUpEvents \cup RemoveAllEvents \cup UnlinkEvents : k < Len(wlog)

\* WithData has returned after invoking the callback.
C6_Witness == wpc = "returned" /\ Events({"callback"}) # {}

\* C7: on every exit path the puller's CleanUp has been called when WithData
\* returns, and no CleanUp call follows the removal of the scratch directory.
C7_CleanUpBeforeRemoveAll ==
    /\ wpc = "returned" => CleanUpEvents # {}
    /\ \A r \in RemoveAllEvents : \A k \in CleanUpEvents : k < r

\* WithData has returned after the scratch directory was made and removed,
\* CleanUp having been called twice.
C7_Witness ==
    /\ wpc = "returned"
    /\ Events({"removeAll"}) # {} /\ dir # ""
    /\ Cardinality(CleanUpEvents) = 2

MainErrors == {"downloadData", "mkdirInputDir", "linkData", "callback", "drain"}

\* The error a failed cleanup reports.
CleanupError(ev) ==
    IF ev = "unlinkDataFailed" THEN "unlinkData"
    ELSE IF ev = "cleanUpFailed" THEN "cleanUp"
    ELSE "removeAll"

FailedCleanups == Events({"unlinkDataFailed", "cleanUpFailed", "removeAllFailed"})

FirstFailedCleanup == CHOOSE i \in FailedCleanups : \A j \in FailedCleanups : i <= j

\* WithData has returned: a main-path error stands whatever the cleanups did;
\* otherwise the error is that of the failed cleanup that ran first, and nil
\* only when no cleanup failed; every registered cleanup has run.
C18_AtReturn ==
    wpc = "returned" =>
        /\ retErr = "nil" => FailedCleanups = {}
        /\ retErr \notin MainErrors =>
              (FailedCleanups = {} /\ retErr = "nil")
              \/ (FailedCleanups # {} /\ retErr = CleanupError(wlog[FirstFailedCleanup]))
        /\ Events({"stageFailed"}) # {} => retErr = "downloadData"
        /\ Events({"linkFailed"}) # {} => retErr = "linkData"
        /\ Cardinality(RemoveAllEvents) = 1
        /\ Cardinality(Events({"cleanUp", "cleanUpFailed"})) >= 1
        /\ Cardinality(UnlinkEvents) = Cardinality(Events({"linked"}))

\* One step of WithData: the main path ends with its error in retErr (nil
\* only after a successful drain); a cleanup never replaces an error; each
\* step of the cleanup phase runs exactly the cleanup registered last, also
\* after an earlier one failed; WithData returns only with none left.
C18_Step ==
    /\ (wpc \in {"start", "mkdir", "link", "callback"} /\ wpc' = "defers") => retErr' \in MainErrors
    /\ (wpc = "drain" /\ wpc' = "defers") => retErr' \in {"nil", "drain"}
    /\ (wpc = "defers" /\ retErr # "nil") => retErr' = retErr
    /\ (wpc = "defers" /\ defers # <<>>) =>
          /\ wpc' = "defers"
          /\ defers' = SubSeq(defers, 1, Len(defers) - 1)
          /\ Len(wlog') = Len(wlog) + 1
    /\ wpc' = "returned" => defers = <<>>

\* C18: a main-path error is what WithData returns even when cleanups fail
\* too; with the main path successful the first failing cleanup's error is
\* returned; every registered cleanup runs whatever the earlier ones did.
C18_FirstErrorKept == []C18_AtReturn /\ [][C18_Step]_vars

\* WithData returned the error of linkData although puller.CleanUp and
\* os.RemoveAll both failed afterwards.
C18_Witness ==
    /\ wpc = "returned" /\ retErr = "linkData"
    /\ Events({"cleanUpFailed"}) # {} /\ Events({"removeAllFailed"}) # {}

\* C17: with a custom uid and gid resolved, when WithData invokes the callback
\* every entry under inputDir (the directory, the scratch tree with the staged
\* inputs and out, the input links and the out link) is owned by (uid, gid).
C17_OwnedAtCallback ==
    (custom /\ wpc = "callback") => \A e \in Ents : owner[e] = "custom"

\* Input i is a git input whose checkout went through and left HEAD at a
\* commit other than the payload's After SHA.
HeadMismatch(i) ==
    /\ data[i] = "git"
    /\ staging[i].fail = "none"
    /\ staging[i].head # After(i)

\* C23: when the checkout of a git input leaves HEAD at another commit than
\* the payload's After SHA, staging fails with an error that quotes the SHA,
\* the inputs after it are not staged, the callback is never invoked, and
\* WithData returns an error.
C23_ShaNotFound ==
    \A i \in Inputs :
        HeadMismatch(i) =>
            /\ derr # NoErr /\ derr.sha = After(i)
            /\ staged = i - 1
            /\ \A j \in Inputs : j > i => staging[j] = NoRun
            /\ wpc \in {"defers", "returned"}
            /\ "callback" \notin {wlog[k] : k \in 1..Len(wlog)}
            /\ wpc = "returned" => retErr # "nil"

\* WithData returned after the first of its inputs, a git input, was left at
\* another commit than the one asked for.
C23_Witness == wpc = "returned" /\ HeadMismatch(1) /\ NumInputs > 1

\* The last n entries of the log.
LastOf(log, n) == SubSeq(log, Len(log) - n + 1, Len(log))

\* C32: when the callback succeeded and the puller's post-callback drain
\* reported an error, WithData returns that error with nil stats,
\* stats.DownloadBytes is not credited (nor the download size reported), and
\* the deferred unlinkData, puller.CleanUp and os.RemoveAll ran, in that
\* order, between the drain and the return.
C32_DrainError ==
    (wpc = "returned" /\ wstats.drain = "failed") =>
        /\ retErr = "drain"
        /\ wstats.ret = "nil"
        /\ ~wstats.credited
        /\ metrics[Series("DatumDownloadSize", "")] = 0
        /\ Len(wlog) >= 6
        /\ LET t == LastOf(wlog, 6) IN
           /\ t[1] = "callback" /\ t[2] = "cleanUp"
           /\ t[3] \in {"unlinkData", "unlinkDataFailed"}
           /\ t[4] \in {"cleanUp", "cleanUpFailed"}
           /\ t[5] \in {"removeAll", "removeAllFailed"}
           /\ t[6] = "return"

\* WithData returned after a failed drain and a failed deferred unlinkData.
C32_Witness ==
    /\ wpc = "returned" /\ wstats.drain = "failed"
    /\ exportStats
    /\ \E i \in DOMAIN wlog : wlog[i] = "unlinkDataFailed"

\* The entries a call of unlinkData found that are not the marker, in ReadDir
\* order.
Targets(c) == SelectSeq(ReadDir(c.before.entries), LAMBDA e : e # ScratchSpace)

\* C33: unlinkData removes every entry of inputDir except the scratch marker,
\* whatever inputs it was given, and leaves the marker and the scratch
\* directories below it as they were; when the removal of an entry fails it
\* returns that error and removes nothing after it.
C33_UnlinkData ==
    ucall.op = "unlinkData" =>
        /\ ucall.err = "nil" => idir.entries = ucall.before.entries \cap {ScratchSpace}
        /\ ScratchSpace \in ucall.before.entries => ScratchSpace \in idir.entries
        /\ idir.below = ucall.before.below
        /\ ucall.err # "nil" <=> ucall.k < Len(Targets(ucall))
        /\ ucall.err # "nil" =>
               idir.entries = ucall.before.entries \ {Targets(ucall)[i] : i \in 1..ucall.k}

\* unlinkData, given no inputs, emptied an inputDir that held an entry nobody
\* linked, the links and the marker with two scratch directories below it.
C33_Witness ==
    /\ ucall.op = "unlinkData" /\ ucall.err = "nil" /\ ucall.inputs = {}
    /\ ucall.before.entries = {ScratchSpace, LinkOut, Stray} \cup Inputs
    /\ idir = Dir({ScratchSpace}, {"this", "other"})

---------------------------------------------------------------------------
(* Properties of NewDriver *)

\* NewDriver has gone through the user lookup.
LookedUp == npc \in {"probe", "done", "failed"}

\* The first passwd line whose name or uid is the user part, 0 when none is.
MatchedLine ==
    LET Match(l) == l.name = userArg.user \/ l.uid = userArg.user IN
    FirstLine({i \in 1..Len(passwd.lines) : Match(passwd.lines[i])})

\* The gid of the first /etc/group line named as the group part.
NamedGroupLine ==
    LET Match(l) == l.name = userArg.group IN
    FirstLine({i \in 1..Len(groupFile.lines) : Match(groupFile.lines[i])})

\* C21: when the user part matches a passwd entry, by name or by uid, the
\* resolved gid is the group part itself when it is numeric, the gid of the
\* /etc/group entry of that name when it is a name, and the entry's primary
\* gid when there is no group part, however the user part was given.
C21_ResolvedGid ==
    (/\ LookedUp
     /\ passwd.present /\ MatchedLine # 0
     /\ userArg.group \in Names => (groupFile.present /\ NamedGroupLine # 0))
    => /\ nerr = "nil"
       /\ gid = IF userArg.group = "" THEN passwd.lines[MatchedLine].gid
                ELSE IF userArg.group \in Numbers THEN userArg.group
                ELSE groupFile.lines[NamedGroupLine].gid

\* lookupDockerUser opens /etc/group: the user part is the name of the first
\* matching passwd line and there is a group part.
GroupFileConsulted ==
    /\ passwd.present /\ MatchedLine # 0
    /\ passwd.lines[MatchedLine].name = userArg.user
    /\ userArg.group # ""

---------------------------------------------------------------------------
(* Properties of RunUserCode and RunUserErrorHandlingCode *)

\* RunUserCode returned after the child exited with a code, the context was
\* found not done, and the child's I/O was closed.
ExitDecided == mode = "user" /\ rpc = "returned" /\ ioClosed /\ child.st = "exited"

Accepted == child.code = 0 \/ child.code \in accept

\* C8 as claimed: when the child has terminated and the context is not done,
\* RunUserCode returns nil if and only if the exit code is 0 or a member of
\* AcceptReturnCode.
C8_ExitCodeIff == ExitDecided => (result = "nil" <=> Accepted)

\* C8 as amended: the equivalence holds when closing the child's I/O reports
\* no error other than a broken pipe; an exit code that is neither 0 nor
\* accepted always gives a non-nil error; a child that exited with 0 gives a
\* non-nil error when the I/O close reports another error.
C8_ExitCodeIffNoCopyError ==
    ExitDecided =>
        /\ copyErr \in {"nil", "brokenPipe"} => (result = "nil" <=> Accepted)
        /\ ~Accepted => result = "waitIOErr"
        /\ (child.code = 0 /\ copyErr = "other") => result = "waitIOErr"

\* RunUserCode returned nil for a child that exited with an accepted code
\* other than 0.
C8_Witness == ExitDecided /\ child.code # 0 /\ child.code \in accept /\ result = "nil"

C10_ErrorHandlerDeadline ==
    (mode = "errcmd" /\ rpc = "returned" /\ rtimeout = "valid" /\ elapsedRunning
        /\ ctxErr # "canceled" /\ result # "waitErr")
    => result = "deadline"

\* C11 as claimed: RunUserCode on an empty command array returns the
\* "no command specified" error and never starts a child process.
C11_NoCommand ==
    (mode = "user" /\ cmdEmpty) =>
        /\ child = NoChild
        /\ rpc = "returned" => result = "noCommand"

\* C11 as amended: RunUserCode on an empty command array never starts a child
\* process and returns an error: the error of converting rawDatumTimeout when
\* that conversion fails, the "no command specified" error otherwise.
C11_NoCommandAfterTimeout ==
    (mode = "user" /\ cmdEmpty) =>
        /\ child = NoChild
        /\ rpc = "returned" => result = (IF rtimeout = "invalid" THEN "badTimeout" ELSE "noCommand")

\* RunUserCode returned the "no command specified" error, a valid timeout
\* having been given.
C11_Witness ==
    /\ mode = "user" /\ cmdEmpty /\ rtimeout = "valid"
    /\ rpc = "returned" /\ result = "noCommand" /\ child = NoChild

\* C12: RunUserErrorHandlingCode on an empty error command array returns the
\* "no command" error, starts no child process and does not crash the driver.
C12_ErrorHandlerNoCommand ==
    (mode = "errcmd" /\ cmdEmpty) =>
        /\ child = NoChild
        /\ result # "panic"
        /\ rpc = "returned" => result = "noCommand"

\* The position of an invocation in created -> started -> terminated ->
\* returned; the I/O is closed on the way from terminated to returned.
Rank(pc) ==
    CASE pc = "created" -> 1
      [] pc = "started" -> 2
      [] pc = "terminated" -> 3
      [] pc = "returned" -> 4
      [] OTHER -> 0

C27_Step ==
    /\ Rank(rpc') >= Rank(rpc)
    /\ rpc' # rpc => <<rpc, rpc'>> \in {<<"created", "started">>, <<"created", "returned">>,
                                        <<"started", "terminated">>, <<"started", "returned">>,
                                        <<"terminated", "returned">>}
    /\ (child.st = "none" /\ child'.st # "none") => (rpc = "created" /\ rpc' = "started")
    /\ (rpc = "created" /\ rpc' = "started") => (child.st = "none" /\ child'.st # "none")
    /\ child.st # "none" => child'.st # "none"
    /\ (rpc = "created" /\ child'.st = "none") => (rpc' \in {"created", "returned"} /\ ~ioClosed')
    /\ (~ioClosed /\ ioClosed') => (rpc = "terminated" /\ child.st \in {"exited", "signaled"})
    /\ ioClosed => ioClosed'

\* C27: an invocation of RunUserCode or RunUserErrorHandlingCode only moves
\* forward through created, started, terminated and io-closed: the child is
\* started once, in the step from created to started, a failed start returns
\* at once without a wait or an I/O close, and the I/O is closed only after
\* cmd.Process.Wait() has reported the end of the child.
C27_StateMachine == [][C27_Step]_vars

\* An invocation went through every state: its child ended and its I/O was
\* closed before it returned.
C27_Witness == rpc = "returned" /\ child.st \in {"exited", "signaled"} /\ ioClosed

\* C28: an invocation whose child was started has closed the child's I/O
\* when it returns.
C28_IoClosedAtReturn == (rpc = "returned" /\ child.st # "none") => ioClosed

\* The datum count under the given label.
DatumCount(state) == metrics[Series("DatumCount", state)]

\* A RunUserCode invocation has reported on entry and not yet returned.
InFlight == mode = "user" /\ rpc \in {"started", "terminated"}

C31_Balance ==
    exportStats =>
        DatumCount("started") =
            DatumCount("finished") + DatumCount("errored") + (IF InFlight THEN 1 ELSE 0)

C31_Step ==
    (exportStats /\ mode = "user" /\ rpc # "returned" /\ rpc' = "returned") =>
        /\ result' = "nil" <=> metrics'[Series("DatumCount", "finished")] = DatumCount("finished") + 1
        /\ result' # "nil" <=> metrics'[Series("DatumCount", "errored")] = DatumCount("errored") + 1
        /\ result' = "nil" => metrics'[Series("DatumCount", "errored")] = DatumCount("errored")
        /\ result' # "nil" => metrics'[Series("DatumCount", "finished")] = DatumCount("finished")

\* C31: with stats export active, once every RunUserCode invocation made so
\* far has returned the "started" datum count equals the sum of the
\* "finished" and "errored" counts (and is one more while an invocation runs),
\* and an invocation increments "finished" if and only if it returns nil,
\* "errored" otherwise; an empty command and an invalid timeout count as
\* "errored".
C31_StartedIsFinishedPlusErrored == []C31_Balance /\ [][C31_Step]_vars

\* After a RunUserCode that returned nil, a second one was refused for its
\* timeout before any child was started.
C31_Witness ==
    /\ exportStats
    /\ invocations = 2
    /\ mode = "user" /\ rpc = "returned" /\ result = "badTimeout"
    /\ DatumCount("finished") = 1 /\ DatumCount("errored") = 1 /\ DatumCount("started") = 2

---------------------------------------------------------------------------
(* Properties of UploadOutput *)

Returned == upc = "returned"

Failed == Returned /\ uresult.err # "nil"

HasNamedPipe == \E k \in DOMAIN outdir : outdir[k].kind = "fifo"

\* C14: if the output directory contains a named pipe, UploadOutput returns
\* an error with a nil buffer and never opens the writer of the tagged
\* object; the walk stops at the entry, and the error is errSpecialFile
\* whenever the walk function got as far as looking at the entry's mode.
C14_NamedPipe ==
    /\ (Returned /\ HasNamedPipe) =>
          (uresult.err # "nil" /\ uresult.buf = NoBuffer /\ tagged = "none")
    /\ \A i \in DOMAIN ulog :
          (ulog[i].k > 0 /\ outdir[ulog[i].k].kind = "fifo") =>
              /\ i = Len(ulog)
              /\ ulog[i].err # "nil"
              /\ (outdir[ulog[i].k].utf8 /\ ulog[i].err # "stat") => ulog[i].err = "specialFile"

\* The nodes put for the entries that were read and sent, in walk order.
UploadedNodes ==
    SelectSeq(tree.nodes, LAMBDA n : n.kind = "file" /\ Len(n.path) = 1 /\ Uploads(outdir[n.path[1]]))

\* C15: every node of an uploaded file has exactly one block reference, into
\* the block of this invocation; the first range starts at 0, each next range
\* starts where the one before ends, and a node's size is the length of its
\* range, which is the length of the file. After a successful UploadOutput the
\* ranges cover exactly the bytes sent.
C15_ContiguousRanges ==
    /\ \A j \in DOMAIN UploadedNodes :
          LET n == UploadedNodes[j] IN
          /\ Len(n.refs) = 1
          /\ n.refs[1].block = Block
          /\ n.refs[1].lower = (IF j = 1 THEN 0 ELSE UploadedNodes[j - 1].refs[1].upper)
          /\ n.refs[1].upper = n.refs[1].lower + n.size
          /\ n.size = outdir[n.path[1]].size
    /\ (Returned /\ uresult.err = "nil") =>
          /\ sent = offset
          /\ offset = (IF UploadedNodes = <<>> THEN 0 ELSE UploadedNodes[Len(UploadedNodes)].refs[1].upper)

\* UploadOutput succeeded after uploading two non-empty files.
C15_Witness ==
    /\ Returned /\ uresult.err = "nil" /\ tagged = "committed"
    /\ Len(UploadedNodes) = 2
    /\ \A j \in 1..2 : UploadedNodes[j].size > 0 /\ outdir[j].kind = "file"

\* The visits of links that point below the name of one of the datum's inputs
\* and that neither Walk, Readlink, InspectFile nor InspectObject failed on.
InputLinkVisits ==
    {i \in DOMAIN ulog :
        /\ ulog[i].k > 0
        /\ outdir[ulog[i].k].kind = "link" /\ outdir[ulog[i].k].to = "input"
        /\ ulog[i].err \notin {"stat", "readlink", "inspectFile", "inspectObject"}}

\* C16: for an output symlink into one of the datum's inputs, UploadOutput
\* puts a file node at the link's path carrying the input file's hash, size
\* and block references (one per object, then the file's own, in order),
\* sends no byte for it and leaves the offset and stats.UploadBytes alone.
C16_InputLink ==
    \A i \in InputLinkVisits :
        LET k == ulog[i].k
            e == outdir[k]
            fi == FileInfoOf(e.input)
            path == IF e.tkind = "dir" THEN <<k, 1>> ELSE <<k>>
            no == Len(fi.objects)
        IN /\ ulog[i].err = "nil"
           /\ ulog[i].bytes = 0 /\ ulog[i].size = 0
           /\ \E j \in DOMAIN tree.nodes :
                LET n == tree.nodes[j] IN
                /\ n.path = path /\ n.kind = "file"
                /\ n.hash = fi.hash /\ n.size = fi.size
                /\ Len(n.refs) = no + Len(fi.blockRefs)
                /\ \A r \in 1..no : n.refs[r] = ObjectBlockRef(fi.objects[r])
                /\ \A r \in 1..Len(fi.blockRefs) : n.refs[no + r] = fi.blockRefs[r]


C26_Step ==
    (upc = "defers" /\ tagged # "closeFailed" /\ tagged' = "closeFailed")
        => /\ uret.err = "nil" => uret'.err # "nil"
           /\ uret.err # "nil" => uret'.err = uret.err

\* C26: when closing the writer of the tagged object fails, UploadOutput
\* returns that error if no error came before it, and keeps the earlier error
\* otherwise; it never returns success once the close has failed.
C26_CloseErrorReturned ==
    /\ []((Returned /\ tagged = "closeFailed") => uresult.err # "nil")
    /\ [][C26_Step]_vars

\* The walk function is on an output symlink whose target is a file outside
\* inputDir, or under inputDir below a name that is none of the inputs, and
\* returns nil for it.
OpaqueLinkVisited ==
    /\ upc = "walk" /\ walkPos <= Len(outdir) /\ walkPos' = walkPos + 1
    /\ outdir[walkPos].kind = "link" /\ outdir[walkPos].to \in {"outside", "other"}
    /\ ulog'[Len(ulog')].err = "nil"

C34_Step ==
    OpaqueLinkVisited =>
        LET size == outdir[walkPos].size IN
        /\ sent' = sent + size
        /\ tree'.nodes = Append(tree.nodes, FileNode(<<walkPos>>, "sha", size, <<BlockRef(Block, offset, offset + size)>>))
        /\ offset' = offset + size
        /\ uploadBytes' = uploadBytes + size

\* C34: an output symlink whose target is outside inputDir, or inside inputDir
\* but not under the name of any of the datum's inputs, is uploaded like a
\* regular file whenever the walk function succeeds on it: the dereferenced
\* file's bytes are sent on the PutObjects stream, the node gets a single
\* byte range starting at the current offset of this invocation's block, and
\* the offset and stats.UploadBytes advance by its size.
C34_OpaqueLink == [][C34_Step]_vars

\* After a non-empty regular file, a non-empty file behind a link under
\* inputDir that names no input was uploaded.
C34_Witness ==
    /\ Len(outdir) = 2 /\ walkPos = 3
    /\ outdir[1].kind = "file" /\ outdir[1].size > 0
    /\ outdir[2].kind = "link" /\ outdir[2].to = "other" /\ outdir[2].size > 0
    /\ Len(ulog) >= 1 /\ ulog[Len(ulog)].k = 2 /\ ulog[Len(ulog)].err = "nil"
    /\ offset = outdir[1].size + outdir[2].size

---------------------------------------------------------------------------
(* Properties of the MockDriver *)

Deleted == \E i \in DOMAIN mseq : mseq[i].op = "delete" /\ mseq[i].done

MockNoOps == {"WithData", "RunUserCode", "RunUserErrorHandlingCode", "ReportUploadStats"}

C25_Calls ==
    /\ mcall.op = "WithData" =>
           mcall.callbacks = 1 /\ mcall.freshStats /\ mcall.err = mcall.cbErr
    /\ mcall.op = "GetExpectedNumWorkers" =>
           mcall.n = IF mconf = 0 THEN 1 ELSE mconf

C25_Step ==
    mcall'.op \in MockNoOps =>
        UNCHANGED <<jobs, pipelines, rev, mjobs, mpipelines>>

\* C25: MockDriver.WithData invokes its callback exactly once with a fresh
\* zero-valued stats struct and returns the callback's error; WithData,
\* RunUserCode, RunUserErrorHandlingCode and ReportUploadStats of the
\* MockDriver leave the coordination store as it is; GetExpectedNumWorkers
\* returns the configured NumWorkers, 1 when it was configured as 0.
C25_MockCalls == []C25_Calls /\ [][C25_Step]_vars

\* A MockDriver configured with 0 workers answered GetExpectedNumWorkers after
\* a store operation.
C25_Witness ==
    /\ mconf = 0
    /\ mcall.op = "GetExpectedNumWorkers" /\ mcall.n = 1
    /\ mseq # <<>>

---------------------------------------------------------------------------
(* Properties of the chunk, merge, plan and shard collections *)

\* The entities whose key must differ from the key of chunk or merge e: the
\* chunks (merges) of other jobs, and for a chunk every merge, plan and shard.
Others(e) ==
    {x \in Entities : \/ x.kind = e.kind /\ x.owner # e.owner
                      \/ e.kind = "chunk" /\ x.kind # "chunk"}

C29_Disjoint ==
    \A e \in kv : e.ent.kind \in {"chunk", "merge"} =>
        \A d \in Drivers : \A x \in Others(e.ent) : KeyOf(d, x) # e.key

C29_Step ==
    kop'.op = "deleteAll" =>
        kv' = {e \in kv : ~(e.ent.kind = kop'.kind /\ e.ent.owner = kop'.owner)}

ShardKey(p, i) == etcdPrefix \o <<"/", "shard", "/">> \o p \o <<"/">> \o i

\* C30: Shards() of the real driver and of the MockDriver addresses keys of the
\* form /<etcd-prefix>/shard/<pipelineName>/<shardID>: every shard entry sits
\* under that key, and what a driver of either kind finds under its Shards()
\* prefix are shards of its own pipeline only.
C30_ShardKeys ==
    /\ \A e \in kv : e.ent.kind = "shard" => e.key = ShardKey(e.ent.owner, e.ent.id)
    /\ \A d \in Drivers : \A p \in KeyPipelines : \A e \in kv :
           HasPrefix(e.key, CollectionOf(d, "shard", p).prefix) =>
               e.ent.kind = "shard" /\ e.ent.owner = p

---------------------------------------------------------------------------
(* Properties of the S3 gateway *)

\* The Content-MD5 header of the last request does not match its body: it
\* is not base64, or it decodes to something other than the body's digest.
Mismatch(c) ==
    /\ c.header # <<>>
    /\ \/ DecodeString(c.header).err
       \/ DecodeString(c.header).bytes # MD5(c.body)

\* C35: a PUT object request whose Content-MD5 header does not match the MD5
\* of its body is answered with a bad request and leaves the file on the
\* branch as it was; a PUT whose header matches, or that carries none,
\* writes the body and is answered with 200 (PutFileOverwrite not failing).
C35_PutChecksum ==
    (s3call.method = "PUT" /\ ~s3call.putErr) =>
        IF Mismatch(s3call)
        THEN s3call.status = StatusBadRequest /\ branchFile = s3call.before
        ELSE s3call.status = StatusOK /\ branchFile = s3call.body

\* The part of C35 the handler keeps: the status answered, and the body
\* written when the header matches or is absent.
C35_StatusAndMatchingWrite ==
    (s3call.method = "PUT" /\ ~s3call.putErr) =>
        IF Mismatch(s3call)
        THEN s3call.status = StatusBadRequest
        ELSE s3call.status = StatusOK /\ branchFile = s3call.body

\* A PUT with a well-formed header of another body's digest was answered
\* with a bad request, on a branch whose file held something else.
C35_MismatchServed ==
    /\ s3call.method = "PUT" /\ ~s3call.putErr
    /\ s3call.header \in {EncodeToString(MD5(b)) : b \in Bodies \ {s3call.body}}
    /\ s3call.status = StatusBadRequest
    /\ s3call.before # s3call.body

=============================================================================
